---- MODULE Spec2Model ----
(***************************************************************************)
(* Model of the resume extraction and template reconciliation engine of    *)
(* Resume-Formatter (Backend/utils).                                       *)
(*                                                                         *)
(* Text is modelled character by character: a Python str is a TLA+ string, *)
(* a character is a string of length 1, and the regular expressions of the *)
(* source are kept as data and run by a backtracking matcher (Ends) with   *)
(* the priorities of Python's re module.                                   *)
(*                                                                         *)
(* TLA+ strings are ASCII only, so the non-ASCII characters the source     *)
(* names are written with ASCII stand-ins, defined under Characters below; *)
(* a stand-in never occurs in a modelled input with another meaning.       *)
(***************************************************************************)
EXTENDS Integers, Sequences, FiniteSets, TLC

VARIABLES
    \* duration / year cleaning
    text,         \* the string handed to the duration/year cleaning
    now_year,     \* datetime.now().year, as the str the source formats it to
    yrs,          \* results of ResumeParser._clean_years: on text, then on its own result
    durs,         \* results of WordFormatter._clean_duration, likewise
    \* section-header detection
    line,         \* the line handed to ResumeParser._is_section_header
    is_header,    \* what it returned: <<>> before the call, <<result>> after it
    \* ResumeParser
    source,       \* the resume file as the extraction library reads it
    file_path,    \* ResumeParser.file_path
    file_type,    \* ResumeParser.file_type
    raw_text,     \* ResumeParser.raw_text
    lines,        \* ResumeParser.lines
    parsed,       \* what parse() did: not called yet, returned a record, or raised
    scan,         \* a line-scan loop in progress: its lines, its index, its entries so far
    \* template reconciliation
    resume_data,        \* the candidate record handed to the entry point
    template_analysis,  \* the template profile handed to the entry point
    output_path,        \* the output path handed to the entry point
    has_word_formatter, \* HAS_WORD_FORMATTER: the import of word_formatter succeeded
    has_win32,          \* HAS_WIN32: the import of win32com succeeded
    disk,               \* the files on disk, by path
    opened,             \* the paths opened as a template so far
    formatted,          \* what the entry point did: not called yet, returned, or raised
    \* skills-table detection
    table,            \* the table handed to WordFormatter._is_skills_table
    is_skills_table,  \* what it returned: <<>> before the call, <<result>> after it
    \* skills-table fill
    skills_list,      \* what WordFormatter._extract_skills_with_details returned, likewise
    filled,           \* what _fill_skills_table did: <<>> before the call, after it the
                      \* table as the call left it and the count it returned
    \* section lookup and name extraction on ResumeParser.lines
    find_keywords,    \* the heading synonyms handed to ResumeParser._find_section
    section_lines,    \* what it returned: <<>> before the call, <<lines>> after it
    candidate_name,   \* what ResumeParser._extract_name returned, likewise
    \* font normalisation
    font_name,        \* the font name handed to normalize_font
    font_id,          \* what it did: <<>> before the call, <<outcome>> after it
    \* template analysis
    template_file,    \* the file_path handed to analyze_pdf_template / analyze_word_template
    profile           \* what the analysis did: <<>> before the call, <<outcome>> after it

cleanVars == <<text, now_year, yrs, durs>>
headerVars == <<line, is_header>>
parseVars == <<source, file_path, file_type, raw_text, lines, parsed, scan>>
formatVars == <<resume_data, template_analysis, output_path, has_word_formatter,
                has_win32, disk, opened, formatted>>
tableVars == <<table, is_skills_table, skills_list, filled>>
lookupVars == <<find_keywords, section_lines, candidate_name>>
fontVars == <<font_name, font_id>>
analyzeVars == <<template_file, profile>>
vars == <<cleanVars, headerVars, parseVars, formatVars, tableVars, lookupVars, fontVars,
          analyzeVars>>

-----------------------------------------------------------------------------
(* Characters *)

\* U+2013 EN DASH
EnDash == "~"
\* U+2014 EM DASH
EmDash == "^"
\* U+2022 BULLET
Bullet == "#"
\* U+25CF BLACK CIRCLE
BlackCircle == "$"
\* U+200B ZERO WIDTH SPACE
ZeroWidthSpace == "="
\* U+FEFF BYTE ORDER MARK
ByteOrderMark == "!"
\* U+00EF LATIN SMALL LETTER I WITH DIAERESIS
IDiaeresis == "{"
\* U+00BC VULGAR FRACTION ONE QUARTER
OneQuarter == "}"
\* U+2019 RIGHT SINGLE QUOTATION MARK
RightQuote == "&"

UpperChars == "ABCDEFGHIJKLMNOPQRSTUVWXYZ"
LowerChars == "abcdefghijklmnopqrstuvwxyz"
DigitChars == "0123456789"

Ch(s, i) == SubSeq(s, i, i)
CharsOf(s) == {Ch(s, i) : i \in 1..Len(s)}

UpperSet == CharsOf(UpperChars)
LowerSet == CharsOf(LowerChars)
DigitSet == CharsOf(DigitChars)
AlphaSet == UpperSet \cup LowerSet
\* \s of re (str patterns): the whitespace that occurs in the modelled inputs
SpaceSet == {" ", "\n", "\t"}
\* \w of re (str patterns): Unicode alphanumerics and the underscore
WordSet == AlphaSet \cup DigitSet \cup {"_", IDiaeresis, OneQuarter}

LowerOf == [c \in UpperSet |-> Ch(LowerChars, CHOOSE i \in 1..26 : Ch(UpperChars, i) = c)]
UpperOf == [c \in LowerSet |-> Ch(UpperChars, CHOOSE i \in 1..26 : Ch(LowerChars, i) = c)]
LowerCh(c) == IF c \in UpperSet THEN LowerOf[c] ELSE c
UpperCh(c) == IF c \in LowerSet THEN UpperOf[c] ELSE c

-----------------------------------------------------------------------------
(* str methods *)

\* str.lower(), str.upper()
RECURSIVE Lower(_)
Lower(s) ==
    IF s = "" THEN ""
    ELSE IF Len(s) = 1 THEN LowerCh(s)
    ELSE Lower(SubSeq(s, 1, Len(s) \div 2)) \o Lower(SubSeq(s, Len(s) \div 2 + 1, Len(s)))
RECURSIVE Upper(_)
Upper(s) ==
    IF s = "" THEN ""
    ELSE IF Len(s) = 1 THEN UpperCh(s)
    ELSE Upper(SubSeq(s, 1, Len(s) \div 2)) \o Upper(SubSeq(s, Len(s) \div 2 + 1, Len(s)))

\* a in b, for str
ContainsFrom(s, sub, i) ==
    \E k \in i..(Len(s) - Len(sub) + 1) : SubSeq(s, k, k + Len(sub) - 1) = sub
Contains(s, sub) == ContainsFrom(s, sub, 1)

\* str.startswith, str.endswith
StartsWith(s, p) == Len(p) <= Len(s) /\ SubSeq(s, 1, Len(p)) = p
EndsWith(s, p) == Len(p) <= Len(s) /\ SubSeq(s, Len(s) - Len(p) + 1, Len(s)) = p

\* str.strip(chars): the default strips whitespace
RECURSIVE LStripSet(_, _)
LStripSet(s, cs) == IF s # "" /\ Head(s) \in cs THEN LStripSet(Tail(s), cs) ELSE s
RECURSIVE RStripSet(_, _)
RStripSet(s, cs) ==
    IF s # "" /\ Ch(s, Len(s)) \in cs THEN RStripSet(SubSeq(s, 1, Len(s) - 1), cs) ELSE s
StripSet(s, cs) == RStripSet(LStripSet(s, cs), cs)
Strip(s) == StripSet(s, SpaceSet)

\* str.replace(old, new), old not empty
RECURSIVE Replace(_, _, _)
Replace(s, old, new) ==
    IF Len(s) < Len(old) THEN s
    ELSE IF SubSeq(s, 1, Len(old)) = old
         THEN new \o Replace(SubSeq(s, Len(old) + 1, Len(s)), old, new)
         ELSE Head(s) \o Replace(Tail(s), old, new)

-----------------------------------------------------------------------------
(* Regular expressions (module re).  A pattern is a tree; Ends(r, s, i, ic) *)
(* is the sequence of positions at which a match of r that starts after     *)
(* the first i characters of s can end, in the order the backtracking       *)
(* matcher tries them, so that its head is the match re reports.  ic is     *)
(* re.IGNORECASE.                                                           *)

RSet(cs) == [t |-> "set", cs |-> cs]
RNot(cs) == [t |-> "not", cs |-> cs]
RAny == [t |-> "any"]
RWordB == [t |-> "wb"]
RBol == [t |-> "bol"]
REol == [t |-> "eol"]
RCat(rs) == [t |-> "cat", rs |-> rs]
RAlt(rs) == [t |-> "alt", rs |-> rs]
RStar(r) == [t |-> "rep", r |-> r, lo |-> 0, hi |-> 0, unb |-> TRUE, lazy |-> FALSE]
RPlus(r) == [t |-> "rep", r |-> r, lo |-> 1, hi |-> 0, unb |-> TRUE, lazy |-> FALSE]
ROpt(r) == [t |-> "rep", r |-> r, lo |-> 0, hi |-> 1, unb |-> FALSE, lazy |-> FALSE]
RRep(r, lo, hi) == [t |-> "rep", r |-> r, lo |-> lo, hi |-> hi, unb |-> FALSE, lazy |-> FALSE]
RAtLeast(r, lo) == [t |-> "rep", r |-> r, lo |-> lo, hi |-> 0, unb |-> TRUE, lazy |-> FALSE]
RLazyStar(r) == [t |-> "rep", r |-> r, lo |-> 0, hi |-> 0, unb |-> TRUE, lazy |-> TRUE]
RLit(str) == [t |-> "lit", str |-> str]
RDigit == RSet(DigitSet)
RSpace == RSet(SpaceSet)
RWord == RSet(WordSet)

CharIn(c, cs, ic) == c \in cs \/ (ic /\ (LowerCh(c) \in cs \/ UpperCh(c) \in cs))

\* the literal str follows the first i characters of s
LitAt(s, i, str, ic) ==
    /\ i + Len(str) <= Len(s)
    /\ LET got == SubSeq(s, i + 1, i + Len(str))
       IN  got = str \/ (ic /\ Lower(got) = Lower(str))

IsWordAt(s, i) == i >= 1 /\ i <= Len(s) /\ Ch(s, i) \in WordSet
\* \b between the first i characters of s and the rest
WordBoundary(s, i) == IsWordAt(s, i) # IsWordAt(s, i + 1)

RECURSIVE DedupIn(_, _, _)
DedupIn(seq, lo, hi) ==
    IF lo > hi THEN <<>>
    ELSE IF lo = hi
         THEN IF \E j \in 1..(lo - 1) : seq[j] = seq[lo] THEN <<>> ELSE <<seq[lo]>>
    ELSE DedupIn(seq, lo, (lo + hi) \div 2) \o DedupIn(seq, (lo + hi) \div 2 + 1, hi)
Dedup(seq) == IF Len(seq) <= 1 THEN seq ELSE DedupIn(seq, 1, Len(seq))

\* a local name bound to a value that is computed once: x = ...; F(x)
With(x, F(_)) == CHOOSE result \in {F(v) : v \in {x}} : TRUE
With2(x, y, F(_, _)) == CHOOSE result \in {F(v, w) : v \in {x}, w \in {y}} : TRUE

RECURSIVE Ends(_, _, _, _)
RECURSIVE EndsSeq(_, _, _, _)
RECURSIVE EndsAll(_, _, _, _)
RECURSIVE EndsAllIn(_, _, _, _, _, _)
RECURSIVE FirstMiss(_, _, _, _, _)
RECURSIVE EndsRun(_, _, _, _)
RECURSIVE EndsAlt(_, _, _, _)
RECURSIVE EndsRep(_, _, _, _, _, _)
RECURSIVE EndsRepAll(_, _, _, _, _, _)

Ends(r, s, i, ic) ==
    CASE r.t = "lit" -> IF LitAt(s, i, r.str, ic) THEN <<i + Len(r.str)>> ELSE <<>>
      [] r.t = "set" -> IF i < Len(s) /\ CharIn(Ch(s, i + 1), r.cs, ic) THEN <<i + 1>> ELSE <<>>
      [] r.t = "not" -> IF i < Len(s) /\ ~CharIn(Ch(s, i + 1), r.cs, ic) THEN <<i + 1>> ELSE <<>>
      [] r.t = "any" -> IF i < Len(s) /\ Ch(s, i + 1) # "\n" THEN <<i + 1>> ELSE <<>>
      [] r.t = "wb" -> IF WordBoundary(s, i) THEN <<i>> ELSE <<>>
      [] r.t = "bol" -> IF i = 0 THEN <<i>> ELSE <<>>
      [] r.t = "eol" -> IF i = Len(s) \/ (i = Len(s) - 1 /\ Ch(s, Len(s)) = "\n") THEN <<i>> ELSE <<>>
      [] r.t = "cat" -> EndsSeq(r.rs, s, <<i>>, ic)
      [] r.t = "alt" -> EndsAlt(r.rs, s, i, ic)
      [] r.t = "rep" -> IF r.r.t \in {"set", "not", "any"}
                        THEN EndsRun(r, s, i, ic)
                        ELSE EndsRep(r, s, i, ic, r.lo, r.hi)

\* the patterns rs one after the other, from each of the positions starts
EndsSeq(rs, s, starts, ic) ==
    IF Len(rs) = 0 \/ Len(starts) = 0 THEN starts
    ELSE EndsSeq(Tail(rs), s, EndsAll(Head(rs), s, starts, ic), ic)

EndsAllIn(r, s, starts, lo, hi, ic) ==
    IF lo > hi THEN <<>>
    ELSE IF lo = hi THEN Ends(r, s, starts[lo], ic)
    ELSE EndsAllIn(r, s, starts, lo, (lo + hi) \div 2, ic)
            \o EndsAllIn(r, s, starts, (lo + hi) \div 2 + 1, hi, ic)

EndsAll(r, s, starts, ic) == Dedup(EndsAllIn(r, s, starts, 1, Len(starts), ic))

EndsAlt(rs, s, i, ic) ==
    IF Len(rs) = 0 THEN <<>>
    ELSE Dedup(Ends(Head(rs), s, i, ic) \o EndsAlt(Tail(rs), s, i, ic))

\* the first offset in lo..hi from which the one-character pattern r does not
\* match, hi + 1 when there is none
FirstMiss(r, s, lo, hi, ic) ==
    IF lo > hi THEN hi + 1
    ELSE IF lo = hi THEN (IF Ends(r, s, lo, ic) = <<>> THEN lo ELSE hi + 1)
    ELSE With(FirstMiss(r, s, lo, (lo + hi) \div 2, ic), LAMBDA miss :
            IF miss <= (lo + hi) \div 2 THEN miss
            ELSE FirstMiss(r, s, (lo + hi) \div 2 + 1, hi, ic))

\* a repetition of a one-character pattern: every length from r.lo up to the run
\* of matching characters (or r.hi), longest first unless lazy
EndsRun(r, s, i, ic) ==
    With(FirstMiss(r.r, s, i, (IF r.unb \/ i + r.hi > Len(s) THEN Len(s) ELSE i + r.hi) - 1, ic),
         LAMBDA top :
            IF top < i + r.lo THEN <<>>
            ELSE [k \in 1..(top - (i + r.lo) + 1) |->
                    IF r.lazy THEN i + r.lo + k - 1 ELSE top - k + 1])

\* a repetition with lo more iterations owed and (unless unbounded) hi allowed
EndsRep(r, s, i, ic, lo, hi) ==
    LET stop == IF lo <= 0 THEN <<i>> ELSE <<>>
        steps == IF r.unb \/ hi > 0
                 THEN SelectSeq(Ends(r.r, s, i, ic), LAMBDA e : e > i)
                 ELSE <<>>
        more == EndsRepAll(r, s, steps, ic, lo - 1, hi - 1)
    IN  Dedup(IF r.lazy THEN stop \o more ELSE more \o stop)

EndsRepAll(r, s, starts, ic, lo, hi) ==
    IF Len(starts) = 0 THEN <<>>
    ELSE EndsRep(r, s, Head(starts), ic, lo, hi) \o EndsRepAll(r, s, Tail(starts), ic, lo, hi)

NoMatch == [found |-> FALSE, start |-> 0, end |-> 0]

\* the leftmost match that starts at a position in lo..hi; the range is
\* halved so that the search of a long text stays shallow
RECURSIVE SearchIn(_, _, _, _, _)
SearchIn(r, s, lo, hi, ic) ==
    IF lo > hi THEN NoMatch
    ELSE IF lo = hi
         THEN With(Ends(r, s, lo, ic), LAMBDA es :
                  IF Len(es) > 0 THEN [found |-> TRUE, start |-> lo, end |-> es[1]] ELSE NoMatch)
    ELSE LET mid == (lo + hi) \div 2
             left == SearchIn(r, s, lo, mid, ic)
         IN  IF left.found THEN left ELSE SearchIn(r, s, mid + 1, hi, ic)

\* pattern.search(s, pos): the leftmost match at or after position pos
SearchFrom(r, s, pos, ic) == SearchIn(r, s, pos, Len(s), ic)

\* re.search(r, s) is not None
Matches(r, s, ic) == SearchFrom(r, s, 0, ic).found

\* match.group(0)
Group0(s, m) == SubSeq(s, m.start + 1, m.end)

\* re.findall(r, s), for a pattern without capturing groups
RECURSIVE FindAllFrom(_, _, _, _)
FindAllFrom(r, s, pos, ic) ==
    With(SearchFrom(r, s, pos, ic), LAMBDA m :
        IF ~m.found THEN <<>>
        ELSE <<Group0(s, m)>> \o FindAllFrom(r, s, IF m.end > m.start THEN m.end ELSE m.end + 1, ic))
FindAll(r, s, ic) == FindAllFrom(r, s, 0, ic)

\* re.sub(r, repl, s), for a pattern that matches no empty string
RECURSIVE SubFrom(_, _, _, _, _)
SubFrom(r, repl, s, pos, ic) ==
    With(SearchFrom(r, s, pos, ic), LAMBDA m :
        IF ~m.found \/ m.end = m.start THEN SubSeq(s, pos + 1, Len(s))
        ELSE SubSeq(s, pos + 1, m.start) \o repl \o SubFrom(r, repl, s, m.end, ic))
Sub(r, repl, s, ic) == SubFrom(r, repl, s, 0, ic)

-----------------------------------------------------------------------------
(* Duration / year cleaning *)

\* r'\s+'
ReSpaces == RPlus(RSpace)

\* ResumeParser._normalize_text
NormalizeText(s) ==
    IF s = "" THEN ""
    ELSE LET a == Replace(s, ZeroWidthSpace, " ")
             b == Replace(a, IDiaeresis \o OneQuarter, " ")
             c == Replace(b, ByteOrderMark, " ")
         IN  Strip(Sub(ReSpaces, " ", c, FALSE))

\* r'\s*(to|-|-|-)\s*' with the en dash and the em dash
ReConnector ==
    RCat(<<RStar(RSpace), RAlt(<<RLit("to"), RLit(EnDash), RLit(EmDash), RLit("-")>>), RStar(RSpace)>>)

\* r'\b(current|present)\b'
ReCurrentPresent == RCat(<<RWordB, RAlt(<<RLit("current"), RLit("present")>>), RWordB>>)

\* r'\b(?:19|20)\d{2}\b'
ReYear == RCat(<<RWordB, RAlt(<<RLit("19"), RLit("20")>>), RRep(RDigit, 2, 2), RWordB>>)

\* a slip: the second year found instead of the last one
FormatYearsFirstTwo(years) ==
    IF Len(years) >= 2 THEN years[1] \o "-" \o years[2]
    ELSE IF Len(years) = 1 THEN years[1]
    ELSE ""

\* a slip: the two ends the other way round
FormatYearsLastFirst(years) ==
    IF Len(years) >= 2 THEN years[Len(years)] \o "-" \o years[1]
    ELSE IF Len(years) = 1 THEN years[1]
    ELSE ""

\* the tail common to _clean_years and _clean_duration: "first-last", the year, or ''
FormatYears(years) ==
    IF Len(years) >= 2 THEN years[1] \o "-" \o years[Len(years)]
    ELSE IF Len(years) = 1 THEN years[1]
    ELSE ""

\* ResumeParser._clean_years, called when datetime.now().year is year
CleanYears(s, year) ==
    IF s = "" THEN ""
    ELSE LET a == NormalizeText(s)
             b == Sub(ReConnector, "-", a, TRUE)
             c == Sub(ReCurrentPresent, year, b, TRUE)
         IN  FormatYears(FindAll(ReYear, c, FALSE))

\* current_year = '2025' in WordFormatter._clean_duration
FormatterYear == "2025"

\* WordFormatter._clean_duration
CleanDuration(s) ==
    IF s = "" THEN ""
    ELSE LET a == Strip(s)
             b == Sub(ReConnector, "-", a, TRUE)
             c == Sub(ReCurrentPresent, FormatterYear, b, TRUE)
         IN  FormatYears(FindAll(ReYear, c, FALSE))

-----------------------------------------------------------------------------
(* More str methods *)

\* str.istitle(): upper case only after uncased characters, lower case only
\* after cased ones, and at least one cased character
RECURSIVE IsTitleFrom(_, _, _, _)
IsTitleFrom(s, i, prevCased, cased) ==
    IF i > Len(s) THEN cased
    ELSE LET c == Ch(s, i)
         IN  IF c \in UpperSet
             THEN IF prevCased THEN FALSE ELSE IsTitleFrom(s, i + 1, TRUE, TRUE)
             ELSE IF c \in LowerSet
             THEN IF ~prevCased THEN FALSE ELSE IsTitleFrom(s, i + 1, TRUE, TRUE)
             ELSE IsTitleFrom(s, i + 1, FALSE, cased)
IsTitle(s) == IsTitleFrom(s, 1, FALSE, FALSE)

\* str.isupper(): no lower case character and at least one upper case one
IsUpper(s) == CharsOf(s) \cap LowerSet = {} /\ CharsOf(s) \cap UpperSet # {}

\* str.split(): the runs of non-whitespace characters
WordStarts(s) ==
    {i \in 1..Len(s) : Ch(s, i) \notin SpaceSet /\ (i = 1 \/ Ch(s, i - 1) \in SpaceSet)}
WordEnds(s) ==
    {i \in 1..Len(s) : Ch(s, i) \notin SpaceSet /\ (i = Len(s) \/ Ch(s, i + 1) \in SpaceSet)}
NthOf(S, n) == CHOOSE i \in S : Cardinality({j \in S : j <= i}) = n
SplitWs(s) ==
    With2(WordStarts(s), WordEnds(s), LAMBDA starts, ends :
        [n \in 1..Cardinality(starts) |-> SubSeq(s, NthOf(starts, n), NthOf(ends, n))])

\* str.find(sub): the number of characters before the first sub, or -1
RECURSIVE FindFrom(_, _, _)
FindFrom(s, sub, i) ==
    IF i + Len(sub) - 1 > Len(s) THEN -1
    ELSE IF SubSeq(s, i, i + Len(sub) - 1) = sub THEN i - 1
    ELSE FindFrom(s, sub, i + 1)

\* str.split(sep, maxsplit=1)
SplitOnce(s, sep) ==
    LET k == FindFrom(s, sep, 1)
    IN  IF k < 0 THEN <<s>> ELSE <<SubSeq(s, 1, k), SubSeq(s, k + Len(sep) + 1, Len(s))>>

\* str.split(sep)
RECURSIVE SplitAll(_, _)
SplitAll(s, sep) ==
    LET k == FindFrom(s, sep, 1)
    IN  IF k < 0 THEN <<s>>
        ELSE <<SubSeq(s, 1, k)>> \o SplitAll(SubSeq(s, k + Len(sep) + 1, Len(s)), sep)

\* sep.join(parts)
RECURSIVE Join(_, _)
Join(sep, parts) ==
    IF Len(parts) = 0 THEN ""
    ELSE IF Len(parts) = 1 THEN parts[1]
    ELSE parts[1] \o sep \o Join(sep, Tail(parts))

\* re.split(r, s, maxsplit=1), for a pattern without capturing groups
ReSplitOnce(r, s, ic) ==
    With(SearchFrom(r, s, 0, ic), LAMBDA m :
        IF ~m.found THEN <<s>> ELSE <<SubSeq(s, 1, m.start), SubSeq(s, m.end + 1, Len(s))>>)

\* re.split(r, s), for a pattern without capturing groups that matches no empty string
RECURSIVE ReSplitFrom(_, _, _, _)
ReSplitFrom(r, s, pos, ic) ==
    With(SearchFrom(r, s, pos, ic), LAMBDA m :
        IF ~m.found \/ m.end = m.start THEN <<SubSeq(s, pos + 1, Len(s))>>
        ELSE <<SubSeq(s, pos + 1, m.start)>> \o ReSplitFrom(r, s, m.end, ic))
ReSplit(r, s, ic) == ReSplitFrom(r, s, 0, ic)

\* any(k in s for k in keywords)
ContainsAny(s, keywords) == \E k \in 1..Len(keywords) : Contains(s, keywords[k])

-----------------------------------------------------------------------------
(* ResumeParser: line classification *)

\* section_keywords of ResumeParser._is_section_header
SectionKeywords ==
    <<"experience", "education", "skills", "summary", "objective",
      "projects", "certifications", "awards", "languages", "profile",
      "work history", "employment", "qualifications", "achievements">>

\* a slip: the keyword anywhere in the line, not at its start
IsSectionHeaderAnywhere(ln) ==
    IF Len(ln) > 50 THEN FALSE
    ELSE LET line_lower == Strip(Lower(ln))
         IN  \E k \in 1..Len(SectionKeywords) : Contains(line_lower, SectionKeywords[k])

\* ResumeParser._is_section_header
IsSectionHeader(ln) ==
    IF Len(ln) > 50 THEN FALSE
    ELSE LET line_lower == Strip(Lower(ln))
         IN  \E k \in 1..Len(SectionKeywords) :
                 SectionKeywords[k] = line_lower \/ StartsWith(line_lower, SectionKeywords[k])

\* r'@|http|linkedin|\d{3}[-.\s]\d{3}'
ReContactInfo ==
    RAlt(<<RLit("@"), RLit("http"), RLit("linkedin"),
           RCat(<<RRep(RDigit, 3, 3), RSet({"-", "."} \cup SpaceSet), RRep(RDigit, 3, 3)>>)>>)

\* ResumeParser._has_contact_info
HasContactInfo(s) == Matches(ReContactInfo, s, TRUE)

\* ResumeParser._looks_like_company_or_role
LooksLikeCompanyOrRole(ln) ==
    (IsTitle(ln) \/ IsUpper(ln)) /\ Len(ln) < 100 /\ ~StartsWith(ln, Bullet)

\* (19|20)\d{2} between word boundaries
ReYearGroup == RCat(<<RWordB, RAlt(<<RLit("19"), RLit("20")>>), RRep(RDigit, 2, 2), RWordB>>)
\* (Jan|Feb|...|Dec)
ReMonth ==
    RAlt(<<RLit("Jan"), RLit("Feb"), RLit("Mar"), RLit("Apr"), RLit("May"), RLit("Jun"),
           RLit("Jul"), RLit("Aug"), RLit("Sep"), RLit("Oct"), RLit("Nov"), RLit("Dec")>>)

\* date_patterns of ResumeParser._contains_date_range
DatePatterns ==
    << RCat(<<ReYearGroup, RStar(RAny), ReYearGroup>>),
       RCat(<<RWordB, ReMonth, RStar(RWord), RPlus(RSpace), RRep(RDigit, 4, 4)>>),
       RCat(<<RRep(RDigit, 1, 2), RLit("/"), RRep(RDigit, 4, 4)>>) >>

\* ResumeParser._contains_date_range
ContainsDateRange(ln) == \E k \in 1..Len(DatePatterns) : Matches(DatePatterns[k], ln, TRUE)

-----------------------------------------------------------------------------
(* ResumeParser: sections and work experience *)

\* ResumeParser._find_section: the lines after the first line that contains a
\* keyword, up to the next section header; a later line that contains a
\* keyword is skipped
RECURSIVE FindSectionFrom(_, _, _, _)
FindSectionFrom(ls, keywords, i, in_section) ==
    IF i > Len(ls) THEN <<>>
    ELSE IF ContainsAny(Lower(ls[i]), keywords) THEN FindSectionFrom(ls, keywords, i + 1, TRUE)
    ELSE IF in_section
         THEN IF IsSectionHeader(ls[i]) THEN <<>>
              ELSE <<ls[i]>> \o FindSectionFrom(ls, keywords, i + 1, TRUE)
         ELSE FindSectionFrom(ls, keywords, i + 1, FALSE)
FindSection(ls, keywords) == FindSectionFrom(ls, keywords, 1, FALSE)

\* r'^[\s bullet \- en-dash em-dash * black-circle]+'
ReLeadingBullets ==
    RCat(<<RBol, RPlus(RSet(SpaceSet \cup {Bullet, "-", EnDash, EmDash, "*", BlackCircle}))>>)

\* ResumeParser._strip_bullet
StripBullet(s) == IF s = "" THEN s ELSE Sub(ReLeadingBullets, "", s, FALSE)

\* r',[^,]*\b(?:city|state|india|usa|uk)\b.*$'
ReLocation ==
    RCat(<<RLit(","), RStar(RNot({","})), RWordB,
           RAlt(<<RLit("city"), RLit("state"), RLit("india"), RLit("usa"), RLit("uk")>>),
           RWordB, RStar(RAny), REol>>)

\* ResumeParser._strip_location
StripLocation(s) == IF s = "" THEN s ELSE Strip(Sub(ReLocation, "", s, TRUE))

\* the company indicators of _parse_company_role_line (dash and comma cases)
CompanyWords == <<"inc", "corp", "ltd", "llc", "company", "technologies", "systems">>
\* the company indicators of its last case
CompanyWordsWhole == CompanyWords \o <<"solutions">>

\* r'\s+[- en-dash]\s+'
ReSpacedDash == RCat(<<RPlus(RSpace), RSet({"-", EnDash}), RPlus(RSpace)>>)
\* r'\s+at\s+'
ReSpacedAt == RCat(<<RPlus(RSpace), RLit("at"), RPlus(RSpace)>>)

\* the last case of _parse_company_role_line: the whole line is the company or the role
WholeLineCompanyRole(ln) ==
    IF ContainsAny(Lower(ln), CompanyWordsWhole) THEN <<Strip(ln), "">> ELSE <<"", Strip(ln)>>

\* parts[0] names a company: (parts[0], parts[1]), else (parts[1], parts[0])
CompanyFirstIfNamed(parts) ==
    IF ContainsAny(Lower(parts[1]), CompanyWords)
    THEN <<Strip(parts[1]), Strip(parts[2])>>
    ELSE <<Strip(parts[2]), Strip(parts[1])>>

\* ResumeParser._parse_company_role_line: <<company, role>>
ParseCompanyRoleLine(ln) ==
    IF Contains(ln, " - ") \/ Contains(ln, " " \o EnDash \o " ")
    THEN With(ReSplitOnce(ReSpacedDash, ln, FALSE), LAMBDA parts :
             IF Len(parts) = 2 THEN CompanyFirstIfNamed(parts) ELSE WholeLineCompanyRole(ln))
    ELSE IF Contains(Lower(ln), " at ")
    THEN With(ReSplitOnce(ReSpacedAt, ln, TRUE), LAMBDA parts :
             IF Len(parts) = 2 THEN <<Strip(parts[2]), Strip(parts[1])>> ELSE WholeLineCompanyRole(ln))
    ELSE IF Contains(ln, "|")
    THEN LET parts == SplitOnce(ln, "|")
         IN  IF Len(parts) = 2 THEN <<Strip(parts[2]), Strip(parts[1])>> ELSE WholeLineCompanyRole(ln)
    ELSE IF Contains(ln, ",")
    THEN LET parts == SplitOnce(ln, ",")
         IN  IF Len(parts) = 2 THEN CompanyFirstIfNamed(parts) ELSE WholeLineCompanyRole(ln)
    ELSE WholeLineCompanyRole(ln)

\* r'\b(Jan|...|Dec)[a-zA-Z]*\s+(?:19|20)\d{2}\b'
ReMonthYear ==
    RCat(<<RWordB, ReMonth, RStar(RSet(AlphaSet)), RPlus(RSpace),
           RAlt(<<RLit("19"), RLit("20")>>), RRep(RDigit, 2, 2), RWordB>>)
\* r'\b(to|-|-|-)\b' with the en dash and the em dash
ReConnectorWord ==
    RCat(<<RWordB, RAlt(<<RLit("to"), RLit(EnDash), RLit(EmDash), RLit("-")>>), RWordB>>)

\* ResumeParser._extract_role_from_dated_line
ExtractRoleFromDatedLine(s) ==
    IF s = "" THEN ""
    ELSE LET a == StripBullet(NormalizeText(s))
             b == Sub(ReMonthYear, "", a, TRUE)
             c == Sub(ReYear, "", b, FALSE)
             d == Sub(ReConnectorWord, "", c, TRUE)
             e == Sub(ReCurrentPresent, "", d, TRUE)
         IN  StripSet(Sub(ReSpaces, " ", e, FALSE), {" ", ",", ";", ":", "-"})

\* lines = [self._normalize_text(l) for l in section if l and l.strip()]
RECURSIVE NormalizedLines(_)
NormalizedLines(section) ==
    IF Len(section) = 0 THEN <<>>
    ELSE (IF Head(section) # "" /\ Strip(Head(section)) # ""
          THEN <<NormalizeText(Head(section))>> ELSE <<>>) \o NormalizedLines(Tail(section))

\* the index of the first line at or after j that is neither empty nor a section header
RECURSIVE SkipHeaders(_, _)
SkipHeaders(ls, j) ==
    IF j <= Len(ls) /\ (ls[j] = "" \/ IsSectionHeader(ls[j])) THEN SkipHeaders(ls, j + 1) ELSE j

\* a details loop without its break: every line left is a detail
DetailsEndAtLast(ls, k) == IF k > Len(ls) THEN k ELSE Len(ls) + 1

\* the index of the first line at or after k that ends an entry's details
RECURSIVE DetailsEnd(_, _)
DetailsEnd(ls, k) ==
    IF k > Len(ls) THEN k
    ELSE IF ContainsDateRange(ls[k]) \/ LooksLikeCompanyOrRole(ls[k]) \/ IsSectionHeader(ls[k])
         THEN k
         ELSE DetailsEnd(ls, k + 1)

\* Case A of _extract_experience at the date line ls[i]: the entry and the next index
ExperienceCaseA(ls, i, year) ==
    With(SkipHeaders(ls, i + 1), LAMBDA j :
    With2(IF j <= Len(ls) THEN ls[j] ELSE "", DetailsEnd(ls, j + 1), LAMBDA title_line, k :
    With(StripBullet(title_line), LAMBDA company_line :
    With2(ParseCompanyRoleLine(company_line), ExtractRoleFromDatedLine(ls[i]),
          LAMBDA cr, role_from_date :
    With2(IF cr[1] = "" /\ company_line # "" THEN StripLocation(company_line) ELSE cr[1],
          IF role_from_date # "" THEN role_from_date ELSE cr[2], LAMBDA company, role :
        [entry |-> [company |-> StripLocation(company), role |-> StripLocation(role),
                    title |-> title_line, duration |-> CleanYears(ls[i], year),
                    details |-> SubSeq(ls, j + 1, k - 1)],
         next |-> k])))))

\* Case B of _extract_experience at the company/role line ls[i]
ExperienceCaseB(ls, i, year) ==
    With2(ParseCompanyRoleLine(ls[i]), i + 1 <= Len(ls) /\ ContainsDateRange(ls[i + 1]),
          LAMBDA cr, dated :
    With(IF dated THEN i + 2 ELSE i + 1, LAMBDA j :
    With(DetailsEnd(ls, j), LAMBDA k :
        [entry |-> [company |-> StripLocation(cr[1]), role |-> StripLocation(cr[2]),
                    title |-> ls[i], duration |-> IF dated THEN CleanYears(ls[i + 1], year) ELSE "",
                    details |-> SubSeq(ls, j, k - 1)],
         next |-> k])))

\* the while loop of _extract_experience from index i
RECURSIVE ExperienceScan(_, _, _)
ExperienceScan(ls, i, year) ==
    IF i > Len(ls) THEN <<>>
    ELSE IF ContainsDateRange(ls[i])
         THEN With(ExperienceCaseA(ls, i, year), LAMBDA a :
                  <<a.entry>> \o ExperienceScan(ls, a.next, year))
    ELSE IF LooksLikeCompanyOrRole(ls[i])
         THEN With(ExperienceCaseB(ls, i, year), LAMBDA b :
                  <<b.entry>> \o ExperienceScan(ls, b.next, year))
    ELSE ExperienceScan(ls, i + 1, year)

ExperienceKeywords == <<"experience", "work history", "employment", "professional experience">>

\* ResumeParser._extract_experience
ExtractExperience(ls, year) ==
    ExperienceScan(NormalizedLines(FindSection(ls, ExperienceKeywords)), 1, year)

-----------------------------------------------------------------------------
(* ResumeParser: identity fields *)

\* match.group(1) of re.search(prefix (cap), s) for a pattern that is a prefix
\* followed by its only capturing group; "" stands for no match
RECURSIVE FirstCapture(_, _, _, _, _)
FirstCapture(cap, s, prefixEnds, n, ic) ==
    IF n > Len(prefixEnds) THEN ""
    ELSE With(Ends(cap, s, prefixEnds[n], ic), LAMBDA es :
             IF Len(es) > 0 THEN SubSeq(s, prefixEnds[n] + 1, es[1])
             ELSE FirstCapture(cap, s, prefixEnds, n + 1, ic))
Group1(prefix, cap, s, ic) ==
    With(SearchFrom(RCat(<<prefix, cap>>), s, 0, ic), LAMBDA m :
        IF ~m.found THEN "" ELSE FirstCapture(cap, s, Ends(prefix, s, m.start, ic), 1, ic))

EmailLocalSet == AlphaSet \cup DigitSet \cup {".", "_", "%", "+", "-"}
EmailDomainSet == AlphaSet \cup DigitSet \cup {".", "-"}
\* r'\b[A-Za-z0-9._%+-]+@[A-Za-z0-9.-]+\.' followed by the top-level domain
ReEmailWith(tld) ==
    RCat(<<RWordB, RPlus(RSet(EmailLocalSet)), RLit("@"), RPlus(RSet(EmailDomainSet)),
           RLit("."), RAtLeast(RSet(tld), 2), RWordB>>)
\* _extract_name: the domain ends in [A-Za-z]{2,}
ReEmailName == ReEmailWith(AlphaSet)
\* _extract_email: the domain ends in [A-Z|a-z]{2,}
ReEmail == ReEmailWith(AlphaSet \cup {"|"})

\* the three phone patterns, over the separator class seps
PhonePatterns(seps) ==
    LET sep == ROpt(RSet(seps))
        plus == ROpt(RLit("+"))
    IN  << RCat(<<ROpt(RCat(<<plus, RRep(RDigit, 1, 3), sep>>)), ROpt(RLit("(")), RRep(RDigit, 3, 3),
                  ROpt(RLit(")")), sep, RRep(RDigit, 3, 3), sep, RRep(RDigit, 4, 4)>>),
           RCat(<<ROpt(RCat(<<plus, RLit("91"), sep>>)), RRep(RDigit, 10, 10)>>),
           RCat(<<plus, RRep(RDigit, 1, 3), sep, RRep(RDigit, 2, 5), sep, RRep(RDigit, 5, 10)>>) >>
\* _extract_name: separators [-\s]
PhonePatternsName == PhonePatterns(SpaceSet \cup {"-"})
\* _extract_phone: separators [-.\s]
PhonePatternsText == PhonePatterns(SpaceSet \cup {"-", "."})

\* any(r.search(line) for r in regexes)
AnyMatches(regexes, s, ic) == \E n \in 1..Len(regexes) : Matches(regexes[n], s, ic)

\* the smallest index in 1..bound of a line satisfying Test, 0 when none
FirstIndex(ls, bound, Test(_)) ==
    LET hits == {i \in 1..bound : Test(ls[i])}
    IN  IF hits = {} THEN 0 ELSE CHOOSE i \in hits : \A j \in hits : i <= j

Min(a, b) == IF a < b THEN a ELSE b
Max(a, b) == IF a > b THEN a ELSE b

\* s[:n]
Take(s, n) == SubSeq(s, 1, Min(n, Len(s)))

\* sum(w[:1].isupper() for w in words)
CapitalisedCount(words) == Cardinality({n \in 1..Len(words) : Ch(words[n], 1) \in UpperSet})

\* the heuristic with one word allowed: 1 to 5 words, all but one capitalised
NameLikeOneWord(ln) ==
    LET words == SplitWs(ln)
    IN  /\ 1 <= Len(words) /\ Len(words) <= 5
        /\ CapitalisedCount(words) >= Len(words) - 1

\* the name heuristic of the pivot scan: 2 to 5 words, mostly capitalised
NameLike(ln) ==
    LET words == SplitWs(ln)
    IN  /\ 1 < Len(words) /\ Len(words) <= 5
        /\ CapitalisedCount(words) >= Max(2, Len(words) - 1)

\* r'^[A-Z][a-zA-Z]+(?:\s+[A-Z][a-zA-Z\-\.]+){1,3}$'
ReName ==
    RCat(<<RBol, RSet(UpperSet), RPlus(RSet(AlphaSet)),
           RRep(RCat(<<RPlus(RSpace), RSet(UpperSet), RPlus(RSet(AlphaSet \cup {"-", "."}))>>), 1, 3),
           REol>>)

\* os.path.basename
RECURSIVE Basename(_)
Basename(path) ==
    LET k == FindFrom(path, "/", 1)
    IN  IF k < 0 THEN path ELSE Basename(SubSeq(path, k + 2, Len(path)))

\* os.path.splitext(base)[0]: cut at the last dot that follows a non-dot character
Stem(base) ==
    LET dots == {i \in 1..Len(base) : Ch(base, i) = "." /\ \E j \in 1..(i - 1) : Ch(base, j) # "."}
    IN  IF dots = {} THEN base
        ELSE SubSeq(base, 1, (CHOOSE i \in dots : \A j \in dots : j <= i) - 1)

NameBlacklist == {"resume", "cv", "profile", "updated", "final", "copy", "doc", "docx", "pdf"}

\* r'[\W_]+'
ReNonWord == RPlus(RNot(AlphaSet \cup DigitSet))

RECURSIVE NameTokens(_)
NameTokens(tokens) ==
    IF Len(tokens) = 0 THEN <<>>
    ELSE (IF Head(tokens) # "" /\ Lower(Head(tokens)) \notin NameBlacklist
          THEN <<Head(tokens)>> ELSE <<>>) \o NameTokens(Tail(tokens))

\* w[:1].upper() + w[1:] for each word
RECURSIVE CapitaliseWords(_)
CapitaliseWords(words) ==
    IF Len(words) = 0 THEN <<>>
    ELSE <<UpperCh(Ch(Head(words), 1)) \o SubSeq(Head(words), 2, Len(Head(words)))>>
         \o CapitaliseWords(Tail(words))

\* Fallback 2 of _extract_name without the test on the number of tokens
NameFromFileAnyTokens(path) ==
    Join(" ", CapitaliseWords(SplitWs(Join(" ",
        NameTokens(ReSplit(ReNonWord, Stem(Basename(path)), FALSE))))))

\* Fallback 2 of _extract_name: the name derived from the file name
NameFromFile(path) ==
    LET tokens == NameTokens(ReSplit(ReNonWord, Stem(Basename(path)), FALSE))
    IN  IF 1 <= Len(tokens) /\ Len(tokens) <= 4
        THEN Join(" ", CapitaliseWords(SplitWs(Join(" ", tokens))))
        ELSE "Unknown Candidate"

\* the pivot scan of _extract_name: the first name-like line among the three
\* lines above the earliest contact line and that line, 0 when none
PivotName(ls) ==
    LET bound == Min(30, Len(ls))
        IsEmail(l) == Matches(ReEmailName, l, FALSE)
        IsPhone(l) == AnyMatches(PhonePatternsName, l, FALSE)
        email_idx == FirstIndex(ls, bound, IsEmail)
        phone_idx == FirstIndex(ls, bound, IsPhone)
        pivot == IF email_idx = 0 THEN phone_idx
                 ELSE IF phone_idx = 0 THEN email_idx ELSE Min(email_idx, phone_idx)
        Named(l) == ~HasContactInfo(Strip(l)) /\ NameLike(Strip(l))
    IN  With({i \in Max(1, pivot - 3)..pivot : Named(ls[i])}, LAMBDA hits :
            IF pivot = 0 \/ hits = {} THEN 0 ELSE CHOOSE i \in hits : \A j \in hits : i <= j)

\* the first fallback of _extract_name: a line of the first ten that reads as a name
PatternName(ls) ==
    LET Named(l) == /\ ~HasContactInfo(l)
                    /\ Len(l) >= 3 /\ Len(l) <= 60
                    /\ Len(Ends(ReName, Strip(l), 0, FALSE)) > 0
    IN  FirstIndex(ls, Min(10, Len(ls)), Named)

\* ResumeParser._extract_name
ExtractName(ls, path) ==
    With2(PivotName(ls), PatternName(ls), LAMBDA pivoted, patterned :
        IF pivoted # 0 THEN Strip(ls[pivoted])
        ELSE IF patterned # 0 THEN Strip(ls[patterned])
        ELSE NameFromFile(path))

\* ResumeParser._extract_email
ExtractEmail(raw) ==
    With(SearchFrom(ReEmail, raw, 0, FALSE), LAMBDA m : IF m.found THEN Group0(raw, m) ELSE "")

\* ResumeParser._extract_phone: the first pattern that matches decides
RECURSIVE FirstPhone(_, _, _)
FirstPhone(patterns, raw, n) ==
    IF n > Len(patterns) THEN ""
    ELSE With(SearchFrom(patterns[n], raw, 0, FALSE), LAMBDA m :
             IF m.found THEN Group0(raw, m) ELSE FirstPhone(patterns, raw, n + 1))
ExtractPhone(raw) == FirstPhone(PhonePatternsText, raw, 1)

AddressKeywords == <<"street", "avenue", "road", "city", "state", "zip", "postal">>

\* ResumeParser._extract_address: the first line that contains an address keyword
ExtractAddress(ls) ==
    LET HasKeyword(l) == ContainsAny(Lower(l), AddressKeywords)
        at == FirstIndex(ls, Len(ls), HasKeyword)
    IN  IF at = 0 THEN "" ELSE ls[at]

\* r'(?:https?://)?(?:www\.)?linkedin\.com/in/[\w-]+'
ReLinkedIn ==
    RCat(<<ROpt(RCat(<<RLit("http"), ROpt(RLit("s")), RLit("://")>>)), ROpt(RLit("www.")),
           RLit("linkedin.com/in/"), RPlus(RSet(WordSet \cup {"-"}))>>)

\* ResumeParser._extract_linkedin
ExtractLinkedIn(raw) ==
    With(SearchFrom(ReLinkedIn, raw, 0, TRUE), LAMBDA m : IF m.found THEN Group0(raw, m) ELSE "")

\* r'(?:DOB|Date of Birth|Birth Date)[\s:]+'
ReDobLabel ==
    RCat(<<RAlt(<<RLit("DOB"), RLit("Date of Birth"), RLit("Birth Date")>>),
           RPlus(RSet(SpaceSet \cup {":"}))>>)
\* r'(\d{1,2}[-/]\d{1,2}[-/]\d{2,4})'
ReDobNumeric ==
    RCat(<<RRep(RDigit, 1, 2), RSet({"-", "/"}), RRep(RDigit, 1, 2), RSet({"-", "/"}),
           RRep(RDigit, 2, 4)>>)
\* r'(\w+ \d{1,2},? \d{4})'
ReDobWritten ==
    RCat(<<RPlus(RWord), RLit(" "), RRep(RDigit, 1, 2), ROpt(RLit(",")), RLit(" "),
           RRep(RDigit, 4, 4)>>)

\* ResumeParser._extract_dob
ExtractDob(raw) ==
    IF Matches(RCat(<<ReDobLabel, ReDobNumeric>>), raw, TRUE)
    THEN Group1(ReDobLabel, ReDobNumeric, raw, TRUE)
    ELSE Group1(ReDobLabel, ReDobWritten, raw, TRUE)

SummaryKeywords == <<"summary", "objective", "profile", "about">>

\* the lines from index j up to last, stopping before the first section header
RECURSIVE UntilHeader(_, _, _)
UntilHeader(ls, j, last) ==
    IF j > last \/ IsSectionHeader(ls[j]) THEN <<>>
    ELSE <<ls[j]>> \o UntilHeader(ls, j + 1, last)

\* ResumeParser._extract_summary
ExtractSummary(ls) ==
    LET HasKeyword(l) == ContainsAny(Lower(l), SummaryKeywords)
        at == FirstIndex(ls, Len(ls), HasKeyword)
    IN  IF at = 0 THEN "" ELSE Join(" ", UntilHeader(ls, at + 1, Min(at + 5, Len(ls))))

-----------------------------------------------------------------------------
(* ResumeParser: education and the list sections *)

InstitutionWords == <<"university", "college", "school", "institute", "academy">>

\* r'(university|college|school|institute|academy)\b.*'
ReInstitution ==
    RCat(<<RAlt(<<RLit("university"), RLit("college"), RLit("school"), RLit("institute"),
                  RLit("academy")>>), RWordB, RStar(RAny)>>)
\* r'\s+from\s+'
ReSpacedFrom == RCat(<<RPlus(RSpace), RLit("from"), RPlus(RSpace)>>)

\* ResumeParser._parse_degree_institution_line: <<degree, institution>>
ParseDegreeInstitutionLine(ln) ==
    With(StripBullet(NormalizeText(ln)), LAMBDA s :
    With(SearchFrom(ReInstitution, s, 0, TRUE), LAMBDA m :
        LET Halves(parts) == IF Len(parts) = 2 THEN <<Strip(parts[1]), Strip(parts[2])>>
                             ELSE <<Strip(s), "">>
        IN  IF m.found
            THEN <<StripSet(SubSeq(s, 1, m.start), {" ", ",", ";", ":", "-"}),
                   StripLocation(Strip(SubSeq(s, m.start + 1, Len(s))))>>
            ELSE IF Contains(s, ",") THEN Halves(SplitOnce(s, ","))
            ELSE IF Contains(s, " - ") \/ Contains(s, " " \o EnDash \o " ")
                 THEN Halves(ReSplitOnce(ReSpacedDash, s, FALSE))
            ELSE IF Contains(s, "|") THEN Halves(SplitOnce(s, "|"))
            ELSE IF Contains(Lower(s), " from ") THEN Halves(ReSplitOnce(ReSpacedFrom, s, TRUE))
            ELSE <<Strip(s), "">>))

\* the while loop of _extract_education from index i
RECURSIVE EducationScan(_, _, _)
EducationScan(ls, i, year) ==
    IF i > Len(ls) THEN <<>>
    ELSE IF Contains(ls[i], ":") \/ ContainsAny(Lower(ls[i]), InstitutionWords)
         THEN With2(ParseDegreeInstitutionLine(ls[i]),
                    i + 1 <= Len(ls) /\ ContainsDateRange(ls[i + 1]), LAMBDA di, dated :
                  <<[degree |-> Strip(di[1]), institution |-> StripLocation(di[2]),
                     year |-> CleanYears(IF dated THEN ls[i + 1] ELSE ls[i], year),
                     details |-> <<>>]>>
                  \o EducationScan(ls, IF dated THEN i + 2 ELSE i + 1, year))
    ELSE EducationScan(ls, i + 1, year)

EducationKeywords == <<"education", "academic", "qualification">>

\* ResumeParser._extract_education
ExtractEducation(ls, year) ==
    EducationScan(NormalizedLines(FindSection(ls, EducationKeywords)), 1, year)

\* [p.strip() for p in parts if p.strip()]
RECURSIVE StrippedNonEmpty(_)
StrippedNonEmpty(parts) ==
    IF Len(parts) = 0 THEN <<>>
    ELSE (IF Strip(Head(parts)) # "" THEN <<Strip(Head(parts))>> ELSE <<>>)
         \o StrippedNonEmpty(Tail(parts))

\* r'[,|bullet]'
ReSkillDelimiter == RSet({",", "|", Bullet})

\* the loop of _extract_skills over the lines of the section
RECURSIVE SkillsOf(_)
SkillsOf(section) ==
    IF Len(section) = 0 THEN <<>>
    ELSE LET l == Head(section)
         IN  (IF Contains(l, ",") \/ Contains(l, "|") \/ Contains(l, Bullet)
              THEN StrippedNonEmpty(ReSplit(ReSkillDelimiter, l, FALSE))
              ELSE IF l # "" /\ ~IsSectionHeader(l) THEN <<l>> ELSE <<>>)
             \o SkillsOf(Tail(section))

SkillsKeywords == <<"skills", "technical skills", "competencies", "expertise">>

\* ResumeParser._extract_skills
ExtractSkills(ls) == SkillsOf(FindSection(ls, SkillsKeywords))

\* the loop of _extract_projects; current holds the open project, if any
RECURSIVE ProjectsOf(_, _)
ProjectsOf(section, current) ==
    IF Len(section) = 0 THEN current
    ELSE LET l == Head(section)
         IN  IF l # "" /\ ~StartsWith(l, Bullet) /\ ~IsSectionHeader(l)
             THEN current \o ProjectsOf(Tail(section), <<[name |-> l, details |-> <<>>]>>)
             ELSE IF l # ""
             THEN ProjectsOf(Tail(section),
                    IF Len(current) = 0 THEN <<[details |-> <<l>>]>>
                    ELSE <<[current[1] EXCEPT !.details = @ \o <<l>>]>>)
             ELSE ProjectsOf(Tail(section), current)

ProjectsKeywords == <<"projects", "key projects", "project work">>

\* ResumeParser._extract_projects
ExtractProjects(ls) == ProjectsOf(FindSection(ls, ProjectsKeywords), <<>>)

\* the loop shared by _extract_certifications, _extract_awards and _extract_languages
RECURSIVE PlainLines(_)
PlainLines(section) ==
    IF Len(section) = 0 THEN <<>>
    ELSE (IF Head(section) # "" /\ ~IsSectionHeader(Head(section)) THEN <<Head(section)>> ELSE <<>>)
         \o PlainLines(Tail(section))

CertificationsKeywords == <<"certifications", "certificates", "licenses">>
AwardsKeywords == <<"awards", "achievements", "honors", "recognition">>
LanguagesKeywords == <<"languages", "language proficiency">>

\* ResumeParser._extract_certifications
ExtractCertifications(ls) == PlainLines(FindSection(ls, CertificationsKeywords))
\* ResumeParser._extract_awards
ExtractAwards(ls) == PlainLines(FindSection(ls, AwardsKeywords))
\* ResumeParser._extract_languages
ExtractLanguages(ls) == PlainLines(FindSection(ls, LanguagesKeywords))

-----------------------------------------------------------------------------
(* ResumeParser: sections, text extraction and parse *)

\* current_section of _extract_sections once line i is processed; "" stands
\* for None, which the source tests by truth value only
RECURSIVE SectionAt(_, _)
SectionAt(ls, i) ==
    IF i = 0 THEN ""
    ELSE IF IsSectionHeader(ls[i]) THEN Strip(Lower(ls[i]))
    ELSE SectionAt(ls, i - 1)

\* the lines from index i on that are filed under the section named key
RECURSIVE LinesUnder(_, _, _)
LinesUnder(ls, key, i) ==
    IF i > Len(ls) THEN <<>>
    ELSE (IF ~IsSectionHeader(ls[i]) /\ SectionAt(ls, i) = key /\ ls[i] # ""
          THEN <<ls[i]>> ELSE <<>>) \o LinesUnder(ls, key, i + 1)

\* ResumeParser._extract_sections: a mapping from section name to its lines
ExtractSections(ls) ==
    LET keys == {SectionAt(ls, i) : i \in {j \in 1..Len(ls) : ~IsSectionHeader(ls[j]) /\ ls[j] # ""}}
                \ {""}
    IN  [key \in keys |-> LinesUnder(ls, key, 1)]

\* page.extract_text() or '': a page without text yields None
PageText(page) == IF page = <<>> THEN "" ELSE Join("\n", page)

RECURSIVE PageTexts(_)
PageTexts(pages) ==
    IF Len(pages) = 0 THEN <<>> ELSE <<PageText(Head(pages))>> \o PageTexts(Tail(pages))

\* ResumeParser._extract_pdf_text without its try/except: the error of the
\* library leaves the method
ExtractPdfTextUnguarded(src) ==
    IF src.readable THEN [raised |-> FALSE, text |-> Join("\n", PageTexts(src.pages))]
    ELSE [raised |-> TRUE, text |-> ""]

\* ResumeParser._extract_pdf_text: how the call ends and the text it returns
ExtractPdfText(src) ==
    IF src.readable THEN [raised |-> FALSE, text |-> Join("\n", PageTexts(src.pages))]
    ELSE [raised |-> FALSE, text |-> ""]

\* the paragraph texts of a document, in reading order
RECURSIVE Paragraphs(_)
Paragraphs(pages) ==
    IF Len(pages) = 0 THEN <<>> ELSE Head(pages) \o Paragraphs(Tail(pages))

\* [t for t in texts if t and t.strip()]
RECURSIVE NonBlank(_)
NonBlank(texts) ==
    IF Len(texts) = 0 THEN <<>>
    ELSE (IF Head(texts) # "" /\ Strip(Head(texts)) # "" THEN <<Head(texts)>> ELSE <<>>)
         \o NonBlank(Tail(texts))

\* ResumeParser._extract_docx_text
ExtractDocxText(src) ==
    IF src.readable THEN [raised |-> FALSE, text |-> Join("\n", NonBlank(Paragraphs(src.pages)))]
    ELSE [raised |-> FALSE, text |-> ""]

\* [line.strip() for line in raw_text.split('\n') if line.strip()]
LinesOf(raw) == StrippedNonEmpty(SplitAll(raw, "\n"))

\* the resume_data dict built by parse()
ResumeData(raw, ls, path, year) ==
    [name |-> ExtractName(ls, path),
     email |-> ExtractEmail(raw),
     phone |-> ExtractPhone(raw),
     address |-> ExtractAddress(ls),
     linkedin |-> ExtractLinkedIn(raw),
     dob |-> ExtractDob(raw),
     summary |-> ExtractSummary(ls),
     experience |-> ExtractExperience(ls, year),
     education |-> ExtractEducation(ls, year),
     skills |-> ExtractSkills(ls),
     projects |-> ExtractProjects(ls),
     certifications |-> ExtractCertifications(ls),
     awards |-> ExtractAwards(ls),
     languages |-> ExtractLanguages(ls),
     sections |-> ExtractSections(ls),
     raw_text |-> raw]

-----------------------------------------------------------------------------
(* The cleaning rule applied to bounded inputs *)

MaxPieces == 3
MaxCalls == 2

Pieces == {"2019", " 2023 ", "1850", "to", "-", "present", "x"}
NowYears == {"2025", "2026"}

RECURSIVE Joined(_)
Joined(ps) == IF Len(ps) = 0 THEN "" ELSE Head(ps) \o Joined(Tail(ps))

Texts == {Joined(ps) : ps \in UNION {[1..n -> Pieces] : n \in 0..MaxPieces}}

\* no header detection in progress
HeaderIdle == line = "" /\ is_header = <<>>

\* No formatter entry point is called in this specification.
FormatIdle ==
    /\ resume_data = <<>>
    /\ template_analysis = <<>>
    /\ output_path = ""
    /\ has_word_formatter = TRUE
    /\ has_win32 = FALSE
    /\ disk = <<>>
    /\ opened = {}
    /\ formatted = [kind |-> "idle"]

\* no table handed to the skills-table detection
TableIdle == table = <<>> /\ is_skills_table = <<>> /\ skills_list = <<>> /\ filled = <<>>

\* no section lookup and no name extraction
LookupIdle == find_keywords = <<>> /\ section_lines = <<>> /\ candidate_name = <<>>

\* no font handed to the normaliser
FontIdle == font_name = <<>> /\ font_id = <<>>

\* no template handed to the analysis
AnalyzeIdle == template_file = "" /\ profile = <<>>

\* none of the four is in use
ProbesIdle == TableIdle /\ LookupIdle /\ FontIdle /\ AnalyzeIdle

\* no resume handed to a parser
ParseIdle ==
    /\ source = [readable |-> FALSE, pages |-> <<>>]
    /\ file_path = ""
    /\ file_type = ""
    /\ raw_text = ""
    /\ lines = <<>>
    /\ parsed = [kind |-> "idle"]
    /\ scan = [loop |-> "idle"]

CleanInit ==
    /\ text \in Texts
    /\ now_year \in NowYears
    /\ yrs = <<>>
    /\ durs = <<>>
    /\ HeaderIdle
    /\ ParseIdle
    /\ FormatIdle
    /\ ProbesIdle

\* parser._clean_years(...), first on text, then on what it returned
CallCleanYears ==
    /\ Len(yrs) < MaxCalls
    /\ yrs' = Append(yrs, CleanYears(IF yrs = <<>> THEN text ELSE yrs[Len(yrs)], now_year))
    /\ UNCHANGED <<text, now_year, durs, headerVars, parseVars, formatVars, tableVars, lookupVars, fontVars, analyzeVars>>

\* formatter._clean_duration(...), first on text, then on what it returned
CallCleanDuration ==
    /\ Len(durs) < MaxCalls
    /\ durs' = Append(durs, CleanDuration(IF durs = <<>> THEN text ELSE durs[Len(durs)]))
    /\ UNCHANGED <<text, now_year, yrs, headerVars, parseVars, formatVars, tableVars, lookupVars, fontVars, analyzeVars>>

CleanNext == CallCleanYears \/ CallCleanDuration

CleanSpec == CleanInit /\ [][CleanNext]_vars

-----------------------------------------------------------------------------
(* Claims about the cleaning rule (under CleanSpec) *)

\* the four-digit year tokens in [1900,2099] of a string, in order of appearance
YearTokens(s) == FindAll(ReYear, s, FALSE)

\* "y1-yk" for k >= 2, y1 for k = 1, '' for k = 0
FirstDashLast(ys) ==
    CASE Len(ys) >= 2 -> ys[1] \o "-" \o ys[Len(ys)]
      [] Len(ys) = 1 -> ys[1]
      [] OTHER -> ""

\* some "to" of s (any case) has a digit directly before or after it
ToTouchesDigit(s) ==
    \E i \in 1..(Len(s) - 1) :
        /\ Lower(SubSeq(s, i, i + 1)) = "to"
        /\ \/ (i > 1 /\ Ch(s, i - 1) \in DigitSet)
           \/ (i + 2 <= Len(s) /\ Ch(s, i + 2) \in DigitSet)

\* the cleaning does not rewrite s into a string with other year tokens
PlainText(s) ==
    /\ ~Contains(Lower(s), "current")
    /\ ~Contains(Lower(s), "present")
    /\ ~Contains(s, IDiaeresis \o OneQuarter)
    /\ ~ToTouchesDigit(s)

\* C1 as stated: for every input, both cleaning functions return "y1-yk", y1 or ''
\* according to the year tokens y1..yk of the input.
C1_ResultFromInputYears ==
    /\ Len(yrs) >= 1 => yrs[1] = FirstDashLast(YearTokens(text))
    /\ Len(durs) >= 1 => durs[1] = FirstDashLast(YearTokens(text))

\* C1 amended: for every input that contains neither "current" nor "present", no
\* "to" next to a digit and no mis-decoded i-diaeresis/one-quarter pair, both
\* cleaning functions return "y1-yk" (k >= 2), y1 (k = 1) or '' (k = 0), y1..yk
\* being the year tokens of the input in order of appearance.
C1_PlainResultFromInputYears ==
    PlainText(text) => C1_ResultFromInputYears

\* a plain input with three year tokens, cleaned by both functions
C1_Witness ==
    /\ PlainText(text)
    /\ Len(YearTokens(text)) >= 3
    /\ Len(yrs) >= 1
    /\ Len(durs) >= 1

\* C2: cleaning is idempotent: cleaning a result of _clean_years (of
\* _clean_duration) again returns that result.
C2_Idempotent ==
    /\ \A i \in 2..Len(yrs) : yrs[i] = yrs[i - 1]
    /\ \A i \in 2..Len(durs) : durs[i] = durs[i - 1]

\* both functions were applied to their own "first-last" result
C2_Witness ==
    /\ Len(yrs) >= 2
    /\ Len(durs) >= 2
    /\ Contains(yrs[1], "-")
    /\ Contains(durs[1], "-")
    /\ YearTokens(yrs[1])[1] # YearTokens(yrs[1])[2]

\* C3 as stated: _clean_years and _clean_duration return the same value for
\* every input, "current"/"present" included.
C3_SameRule ==
    (Len(yrs) >= 1 /\ Len(durs) >= 1) => yrs[1] = durs[1]

-----------------------------------------------------------------------------
(* parse() applied to bounded resumes *)

MaxBlocks == 3

\* the blocks a modelled resume is assembled from; each is one page of a PDF
\* (the empty block a page without text) or a run of paragraphs of a DOCX
Catalogue ==
    << <<>>,
       <<"Jane A. Doe", "jane.doe@mail.com", "555-123-4567">>,
       <<"Curriculum Vitae", "Phone: +91 9876543210", "linkedin.com/in/ravi-k",
         "DOB: 12/05/1990", "12 Main Street">>,
       <<"EXPERIENCE", "2020-2023", "Senior Engineer, Tech Corp", "- Led team", "- Shipped X">>,
       <<"EXPERIENCE", "2019-2022", "Data Analyst, Acme Inc", "- Built dashboards">>,
       <<"EDUCATION", "B.S. Computer Science, State University", "2018">>,
       <<"EDUCATION", "MBA: Harvard Business School, Boston, USA", "2015 - Present">>,
       <<"SKILLS", "Python, SQL | Excel", " ", "Awards", "Best Analyst">> >>

\* the blocks with their index in chosen, in catalogue order
RECURSIVE PagesFrom(_, _)
PagesFrom(chosen, i) ==
    IF i > Len(Catalogue) THEN <<>>
    ELSE (IF i \in chosen THEN <<Catalogue[i]>> ELSE <<>>) \o PagesFrom(chosen, i + 1)

\* the files: an unreadable one, and every selection of at most MaxBlocks blocks
Sources ==
    {[readable |-> FALSE, pages |-> <<>>]} \cup
    {[readable |-> TRUE, pages |-> PagesFrom(chosen, 1)] :
        chosen \in {c \in SUBSET (1..Len(Catalogue)) : Cardinality(c) <= MaxBlocks}}

\* the constructor arguments: file_path and file_type
FileArgs == {<<"uploads/jane_doe_resume.pdf", "pdf">>, <<"uploads/cv.docx", "docx">>}

\* datetime.now().year at the time of the parse
ParseYears == {"2026"}

ParseInit ==
    /\ source \in Sources
    /\ \E args \in FileArgs : file_path = args[1] /\ file_type = args[2]
    /\ now_year \in ParseYears
    /\ raw_text = ""
    /\ lines = <<>>
    /\ parsed = [kind |-> "idle"]
    /\ scan = [loop |-> "idle"]
    /\ text = "" /\ yrs = <<>> /\ durs = <<>>
    /\ HeaderIdle
    /\ FormatIdle
    /\ ProbesIdle

\* ResumeParser.parse()
Parse ==
    /\ parsed.kind = "idle"
    /\ LET out == IF file_type = "pdf" THEN ExtractPdfText(source) ELSE ExtractDocxText(source)
           ls == LinesOf(out.text)
       IN  IF out.raised
           THEN /\ parsed' = [kind |-> "raised"]
                /\ UNCHANGED <<raw_text, lines>>
           ELSE /\ raw_text' = out.text
                /\ lines' = ls
                /\ parsed' = [kind |-> "returned",
                              record |-> ResumeData(out.text, ls, file_path, now_year)]
    /\ UNCHANGED <<source, file_path, file_type, scan, cleanVars, headerVars, formatVars, tableVars,
                   lookupVars, fontVars, analyzeVars>>

ParseNext == Parse

ParseSpec == ParseInit /\ [][ParseNext]_vars

-----------------------------------------------------------------------------
(* Claims about parse() (under ParseSpec) *)

\* the lines of the experience section of the parsed resume
ExperienceSection == FindSection(lines, ExperienceKeywords)

IsBulletLine(l) == StartsWith(l, "- ")

\* a date-anchor line, a title line, then one or more bullet detail lines
DateTitleBullets(sec) ==
    /\ Len(sec) >= 3
    /\ ContainsDateRange(sec[1])
    /\ ~ContainsDateRange(sec[2]) /\ ~IsBulletLine(sec[2]) /\ Contains(sec[2], ",")
    /\ \A i \in 3..Len(sec) : IsBulletLine(sec[i])

\* C4 as stated: an experience section made of a date-anchor line, a title
\* line and bullet detail lines (such as "2020-2023", "Senior Engineer, Tech
\* Corp", "- Led team", "- Shipped X") yields exactly one entry, whose duration
\* is the cleaned date line, whose details are all the bullet lines and whose
\* company and role are the two halves of the title line split at its comma.
C4_ExperiencePairing ==
    (parsed.kind = "returned" /\ DateTitleBullets(ExperienceSection)) =>
        LET sec == ExperienceSection
            e == parsed.record.experience
            halves == SplitOnce(sec[2], ",")
        IN  /\ Len(e) = 1
            /\ e[1].duration = FirstDashLast(YearTokens(sec[1]))
            /\ e[1].details = SubSeq(sec, 3, Len(sec))
            /\ {e[1].company, e[1].role} = {Strip(halves[1]), Strip(halves[2])}

\* the resume lines of the end-to-end example
JaneDoeLines ==
    <<"Jane A. Doe", "jane.doe@mail.com", "555-123-4567", "EXPERIENCE", "2019-2022",
      "Data Analyst, Acme Inc", "- Built dashboards", "EDUCATION",
      "B.S. Computer Science, State University", "2018">>

\* C5 as stated: for the resume lines of the end-to-end example parse() yields
\* name "Jane A. Doe", email "jane.doe@mail.com", a non-empty phone, exactly
\* one experience entry with duration "2019-2022" whose details contain
\* "- Built dashboards", and exactly one education entry whose year is "2018".
C5_EndToEnd ==
    (parsed.kind = "returned" /\ lines = JaneDoeLines) =>
        LET r == parsed.record
        IN  /\ r.name = "Jane A. Doe"
            /\ r.email = "jane.doe@mail.com"
            /\ r.phone # ""
            /\ Len(r.experience) = 1
            /\ r.experience[1].duration = "2019-2022"
            /\ \E d \in 1..Len(r.experience[1].details) :
                   r.experience[1].details[d] = "- Built dashboards"
            /\ Len(r.education) = 1
            /\ r.education[1].year = "2018"

TopLevelFields ==
    {"name", "email", "phone", "address", "linkedin", "dob", "summary", "experience",
     "education", "skills", "projects", "certifications", "awards", "languages",
     "sections", "raw_text"}

StringFields == {"name", "email", "phone", "address", "linkedin", "dob", "summary", "raw_text"}
ListFields ==
    {"experience", "education", "skills", "projects", "certifications", "awards", "languages"}

\* C9: parse() always returns, and returns a record in which each of the 16
\* top-level fields is present and holds a value of its kind (a string, a
\* sequence or a mapping, possibly empty), whatever the file: unreadable,
\* without text, or with any content.
C9_RecordTotal ==
    parsed.kind # "idle" =>
        /\ parsed.kind = "returned"
        /\ DOMAIN parsed.record = TopLevelFields
        /\ \A f \in StringFields : parsed.record[f] \in STRING
        /\ \A f \in ListFields : DOMAIN parsed.record[f] = 1..Len(parsed.record[f])
        /\ DOMAIN parsed.record.sections \subseteq STRING

\* parse() returned for an unreadable PDF, with empty text and every list empty
C9_Witness ==
    /\ parsed.kind = "returned"
    /\ file_type = "pdf"
    /\ ~source.readable
    /\ parsed.record.raw_text = ""
    /\ parsed.record.experience = <<>>
    /\ parsed.record.sections = <<>>

-----------------------------------------------------------------------------
(* _is_section_header applied to bounded lines *)

HeaderPrefixes == {"", " ", "My ", "Work "}
HeaderWords ==
    {"Education", "EXPERIENCE", "skills", "work history", "Qualifications", "Achievement",
     "Educat", "Profile", "Summary"}
HeaderSuffixes == {"", " Background", "s", " \t"}

\* s followed by as many dots as it takes to reach n characters
RECURSIVE PadTo(_, _)
PadTo(s, n) == IF Len(s) >= n THEN s ELSE PadTo(s \o ".", n)

\* a 55-character sentence with "education" in its middle
MidSentence == "I completed my education at a local school a while ago."

HeaderLines ==
    {pre \o w \o suf : pre \in HeaderPrefixes, w \in HeaderWords, suf \in HeaderSuffixes}
    \cup {PadTo(w, n) : w \in HeaderWords, n \in {49, 50, 51}}
    \cup {PadTo(w \o " ", n) \o " " : w \in {"Education", "x"}, n \in {49, 50}}
    \cup {MidSentence, SubSeq(MidSentence, 16, 55), ""}

HeaderInit ==
    /\ line \in HeaderLines
    /\ is_header = <<>>
    /\ text = "" /\ now_year = "2026" /\ yrs = <<>> /\ durs = <<>>
    /\ ParseIdle
    /\ FormatIdle
    /\ ProbesIdle

\* parser._is_section_header(line)
CallIsSectionHeader ==
    /\ is_header = <<>>
    /\ is_header' = <<IsSectionHeader(line)>>
    /\ UNCHANGED <<line, cleanVars, parseVars, formatVars, tableVars, lookupVars, fontVars, analyzeVars>>

HeaderNext == CallIsSectionHeader

HeaderSpec == HeaderInit /\ [][HeaderNext]_vars

-----------------------------------------------------------------------------
(* Claims about _is_section_header (under HeaderSpec) *)

\* the stripped, lower-cased line equals or starts with a vocabulary word
StartsWithVocabularyWord(ln) ==
    \E k \in 1..Len(SectionKeywords) : StartsWith(Lower(Strip(ln)), SectionKeywords[k])

\* C10: _is_section_header(line) is true exactly when len(line) <= 50 and the
\* stripped, lower-cased line equals or starts with one of the 14 vocabulary
\* words: "Education" and "Education Background" are headers, the 55-character
\* sentence with "education" in its middle is not, and no line that contains a
\* vocabulary word only away from its start is one.
C10_ExactOrPrefixWithinLength ==
    is_header # <<>> =>
        /\ Len(SectionKeywords) = 14
        /\ is_header[1] <=> (Len(line) <= 50 /\ StartsWithVocabularyWord(line))
        /\ line \in {"Education", "Education Background"} => is_header[1]
        /\ (line = MidSentence /\ Len(line) = 55) => ~is_header[1]
        /\ ~StartsWithVocabularyWord(line) => ~is_header[1]

\* a short line with a vocabulary word away from its start was classified
\* as no header
C10_Witness ==
    /\ is_header = <<FALSE>>
    /\ Len(line) <= 50
    /\ ContainsAny(Lower(line), SectionKeywords)
    /\ ~StartsWithVocabularyWord(line)

-----------------------------------------------------------------------------
(* Template reconciliation: literal tokens *)

\* A flow document is a record of its body, a sequence of paragraphs and tables,
\* and the paragraph lists of its header and footer; the runs of a paragraph
\* are the sequence of their texts.

\* paragraph.text (docx): the texts of the runs, joined
ParagraphText(runs) == Join("", runs)

\* WordFormatter._create_replacement_map: the (token, value) pairs in insertion
\* order; a group of tokens is registered only when its field is non-empty
NameTokenKeys ==
    <<"[NAME]", "[CANDIDATE NAME]", "<CANDIDATE NAME>", "<Candidate's full name>",
      "<Candidate Name>", "<Name>", "Your Name", "CANDIDATE NAME">>
EmailTokenKeys == <<"[EMAIL]", "[Email]", "<EMAIL>", "<Email>", "<Candidate Email>">>
PhoneTokenKeys == <<"[PHONE]", "[Phone]", "<PHONE>", "<Phone>", "<Candidate Phone>">>
AddressTokenKeys == <<"[ADDRESS]", "[Address]", "<ADDRESS>", "<Address>", "Your Address">>
LinkedInTokenKeys ==
    <<"[LINKEDIN]", "[LinkedIn]", "<LINKEDIN>", "<LinkedIn>", "linkedin.com/in/username">>
DobTokenKeys == <<"[DOB]", "[Date of Birth]", "<DOB>">>

Registered(keys, value) ==
    IF value # "" THEN [k \in 1..Len(keys) |-> <<keys[k], value>>] ELSE <<>>

CreateReplacementMap(d) ==
    Registered(NameTokenKeys, d.name) \o Registered(EmailTokenKeys, d.email)
        \o Registered(PhoneTokenKeys, d.phone) \o Registered(AddressTokenKeys, d.address)
        \o Registered(LinkedInTokenKeys, d.linkedin) \o Registered(DobTokenKeys, d.dob)

\* WordFormatter._text_contains
TextContains(txt, search_term) == Contains(Lower(txt), Lower(search_term))

\* re.compile(re.escape(search_term), re.IGNORECASE).sub(replacement, s), for a
\* replacement without backslash
SubEscaped(search_term, replacement, s) == Sub(RLit(search_term), replacement, s, TRUE)

\* clear every run and put new_text in the first one (or add a run), when the
\* text changed
Rebuild(runs, new_text) ==
    IF new_text = ParagraphText(runs) THEN runs
    ELSE IF runs = <<>> THEN <<new_text>>
    ELSE [k \in 1..Len(runs) |-> IF k = 1 THEN new_text ELSE ""]

\* WordFormatter._replace_in_paragraph: the runs afterwards
ReplaceInParagraph(runs, search_term, replacement) ==
    IF \E k \in 1..Len(runs) : TextContains(runs[k], search_term)
    THEN [k \in 1..Len(runs) |->
            IF TextContains(runs[k], search_term)
            THEN SubEscaped(search_term, replacement, runs[k])
            ELSE runs[k]]
    ELSE IF TextContains(ParagraphText(runs), search_term)
         THEN With(SubEscaped(search_term, replacement, ParagraphText(runs)),
                   LAMBDA new_text : Rebuild(runs, new_text))
         ELSE runs

\* for key, value in replacements.items(): if self._text_contains(paragraph.text, key): ...
\* (the pairs lo..hi of replacements, in order)
RECURSIVE ReplaceAllIn(_, _, _, _)
ReplaceAllIn(runs, replacements, lo, hi) ==
    IF lo > hi THEN runs
    ELSE IF lo = hi
         THEN IF TextContains(ParagraphText(runs), replacements[lo][1])
              THEN ReplaceInParagraph(runs, replacements[lo][1], replacements[lo][2])
              ELSE runs
    ELSE With(ReplaceAllIn(runs, replacements, lo, (lo + hi) \div 2), LAMBDA done :
            ReplaceAllIn(done, replacements, (lo + hi) \div 2 + 1, hi))

ReplaceAll(runs, replacements) == ReplaceAllIn(runs, replacements, 1, Len(replacements))

\* WordFormatter._regex_replace_paragraph
RegexReplaceParagraph(runs, pattern, replacement) ==
    With(Sub(pattern, replacement, ParagraphText(runs), TRUE), LAMBDA new_text :
        Rebuild(runs, new_text))

-----------------------------------------------------------------------------
(* Template reconciliation: angle-bracket placeholders *)

\* [Pp]lease and the like: the first letter in either case, then the rest
REither(word) ==
    RCat(<<RSet({Upper(Ch(word, 1)), Lower(Ch(word, 1))}), RLit(SubSeq(word, 2, Len(word)))>>)

ReApostrophe == RSet({RightQuote, "'"})
ReNotClose == RNot({">"})

\* name_patterns of _format_docx_file, in order
NamePatterns ==
    << RCat(<<RLit("<"), RStar(RSpace), RLit("Candidate"), ROpt(ReApostrophe), RLit("s"),
              RPlus(RSpace), RLit("full"), RPlus(RSpace), RLit("name"), RStar(RSpace),
              RLit(">")>>),
       RCat(<<RLit("<"), RStar(RSpace), RLit("Candidate"), RStar(RSpace), RLit("Name"),
              RStar(RSpace), RLit(">")>>),
       RCat(<<RLit("<"), RStar(RSpace), RLit("Name"), RStar(RSpace), RLit(">")>>),
       RCat(<<RLit("<"), RStar(RSpace), REither("Please"), RPlus(RSpace), REither("Insert"),
              RPlus(RSpace), REither("Candidate"), ROpt(ReApostrophe), ROpt(RLit("s")),
              RPlus(RSpace), REither("Name"), RPlus(RSpace), REither("Here"),
              RStar(RSpace), RLit(">")>>),
       RCat(<<RLit("<"), RStar(RSpace), REither("Insert"), RPlus(RSpace),
              REither("Candidate"), ROpt(ReApostrophe), ROpt(RLit("s")), RPlus(RSpace),
              REither("Name"), RPlus(RSpace), REither("Here"), RStar(RSpace), RLit(">")>>),
       RCat(<<RLit("<"), RStar(RSpace), REither("Insert"), RPlus(RSpace),
              REither("Candidate"), RPlus(RSpace), REither("Name"), RStar(RSpace),
              RLit(">")>>),
       RCat(<<RLit("<"), RStar(RSpace), REither("Please"), RPlus(RSpace), REither("Insert"),
              RPlus(RSpace), REither("Name"), RStar(RSpace), RLit(">")>>),
       RCat(<<RLit("<"), RStar(RSpace), REither("Candidate"), RPlus(RSpace),
              REither("Name"), RPlus(RSpace), REither("Here"), RStar(RSpace), RLit(">")>>) >>

\* generic_name_pat
GenericNamePattern ==
    RCat(<<RLit("<"), RLazyStar(ReNotClose),
           RAlt(<<RCat(<<RLit("candidate"), RStar(ReNotClose), RLit("name")>>),
                  RCat(<<RLit("name"), RStar(ReNotClose), RLit("candidate")>>)>>),
           RLazyStar(ReNotClose), RLit(">")>>)

\* <[^>]*a[^>]*b[^>]*>, b a pattern
ReAngled(a, b) ==
    RCat(<<RLit("<"), RStar(ReNotClose), RLit(a), RStar(ReNotClose), b, RStar(ReNotClose),
           RLit(">")>>)

\* emp_patterns, in order
EmpPatterns ==
    << ReAngled("employment", RLit("history")),
       ReAngled("work", RLit("history")),
       ReAngled("professional", RLit("experience")),
       ReAngled("career", RAlt(<<RLit("history"), RLit("experience")>>)),
       ReAngled("history",
                RAlt(<<RLit("employ"), RLit("employer"), RLit("work"), RLit("career")>>)),
       RCat(<<RLit("<"), RStar(ReNotClose), RLit("list"), RStar(ReNotClose),
              RLit("employment"), RStar(ReNotClose), RLit("history"), RStar(ReNotClose),
              RLit(">")>>) >>

\* edu_pat
EduPattern == ReAngled("education", RLit("background"))

\* the name the regex fallback writes: self.resume_data.get('name', '').strip() or 'Candidate Name'
FallbackName(d) == IF Strip(d.name) # "" THEN Strip(d.name) ELSE "Candidate Name"

\* for pat in name_patterns: if re.search(pat, paragraph.text, re.IGNORECASE): ...
RECURSIVE ReplaceNames(_, _, _)
ReplaceNames(runs, patterns, name) ==
    IF patterns = <<>> THEN runs
    ELSE With(IF Matches(Head(patterns), ParagraphText(runs), TRUE)
              THEN RegexReplaceParagraph(runs, Head(patterns), name)
              ELSE runs,
              LAMBDA done : ReplaceNames(done, Tail(patterns), name))

\* WordFormatter._find_matching_resume_section; resume_sections is the sequence of
\* the (key, lines) pairs of the dict, in insertion order
SectionSynonyms(section_key) ==
    CASE section_key = "experience" -> <<"experience", "employment", "work", "professional">>
      [] section_key = "education" -> <<"education", "academic", "qualification", "academics">>
      [] section_key = "skills" -> <<"skills", "technical", "competencies", "expertise">>
      [] section_key = "summary" -> <<"summary", "objective", "profile", "about">>
      [] section_key = "projects" -> <<"projects", "portfolio">>
      [] section_key = "certifications" -> <<"certifications", "certificates", "licenses">>
      [] section_key = "awards" -> <<"awards", "achievements", "honors">>
      [] OTHER -> <<section_key>>

Least(S) == CHOOSE k \in S : \A j \in S : k <= j

FindMatchingResumeSection(section_key, resume_sections) ==
    LET direct == {k \in 1..Len(resume_sections) : resume_sections[k][1] = section_key}
        similar == {k \in 1..Len(resume_sections) :
                        ContainsAny(Lower(resume_sections[k][1]), SectionSynonyms(section_key))}
    IN  IF direct # {} THEN resume_sections[Least(direct)][2]
        ELSE IF similar # {} THEN resume_sections[Least(similar)][2]
        ELSE <<>>

\* '\n'.join of the bulleted first ten items of content
RECURSIVE BulletLines(_)
BulletLines(content) ==
    IF content = <<>> THEN <<>>
    ELSE (IF Strip(Head(content)) # ""
          THEN <<Bullet \o " " \o Strip(LStripSet(Strip(Head(content)), {Bullet}))>>
          ELSE <<>>) \o BulletLines(Tail(content))

BulletText(content) == Join("\n", BulletLines(SubSeq(content, 1, Min(10, Len(content)))))

\* for emp_pat in emp_patterns: the first pattern found is replaced when the record
\* has experience content, and the loop ends there
RECURSIVE ReplaceEmployment(_, _, _)
ReplaceEmployment(runs, patterns, content) ==
    IF patterns = <<>> \/ content = <<>> THEN runs
    ELSE IF Matches(Head(patterns), ParagraphText(runs), TRUE)
         THEN RegexReplaceParagraph(runs, Head(patterns), BulletText(content))
         ELSE ReplaceEmployment(runs, Tail(patterns), content)

ReplaceEducation(runs, content) ==
    IF content # <<>> /\ Matches(EduPattern, ParagraphText(runs), TRUE)
    THEN RegexReplaceParagraph(runs, EduPattern, BulletText(content))
    ELSE runs

-----------------------------------------------------------------------------
(* Template reconciliation: the document tree and skills-table detection *)

\* an element of a document body or of a table cell: a paragraph with its runs,
\* or a table with its rows; a row is a sequence of cells and a cell a sequence
\* of elements
Para(runs) == [tag |-> "p", runs |-> runs, rows |-> <<>>]
Tbl(rows) == [tag |-> "tbl", runs |-> <<>>, rows |-> rows]

\* Document.paragraphs / _Cell.paragraphs: the runs of the paragraphs that are
\* direct children, in order
RECURSIVE DirectParagraphs(_)
DirectParagraphs(elements) ==
    IF Len(elements) = 0 THEN <<>>
    ELSE (IF Head(elements).tag = "p" THEN <<Head(elements).runs>> ELSE <<>>)
         \o DirectParagraphs(Tail(elements))

\* _Cell.text: the texts of the cell's paragraphs, joined by newlines
CellText(cell) ==
    With(DirectParagraphs(cell), LAMBDA paragraphs :
        Join("\n", [k \in 1..Len(paragraphs) |-> ParagraphText(paragraphs[k])]))

\* a table whose cells hold one paragraph of one run each, from its cell texts
TextTable(texts) ==
    Tbl([r \in 1..Len(texts) |-> [c \in 1..Len(texts[r]) |-> <<Para(<<texts[r][c]>>)>>]])

SkillColumnKeywords == <<"skill", "skills", "technology", "competency">>
YearsColumnKeywords == <<"years", "experience", "years used", "years of experience">>
LastUsedColumnKeywords == <<"last used", "last", "recent", "most recent">>

\* [cell.text.strip().lower() for cell in header_row.cells]
HeaderTexts(t) == [c \in 1..Len(t.rows[1]) |-> Lower(Strip(CellText(t.rows[1][c])))]

\* any(any(kw in h for kw in keywords) for h in header_texts)
HasColumn(header_texts, column_keywords) ==
    \E c \in 1..Len(header_texts) : ContainsAny(header_texts[c], column_keywords)

\* _is_skills_table without the quantity columns
IsSkillsTableSkillOnly(t) ==
    IF Len(t.rows) < 2 THEN FALSE
    ELSE HasColumn(HeaderTexts(t), SkillColumnKeywords)

\* WordFormatter._is_skills_table
IsSkillsTable(t) ==
    IF Len(t.rows) < 2 THEN FALSE
    ELSE With(HeaderTexts(t), LAMBDA header_texts :
            /\ HasColumn(header_texts, SkillColumnKeywords)
            /\ \/ HasColumn(header_texts, YearsColumnKeywords)
               \/ HasColumn(header_texts, LastUsedColumnKeywords))

\* sequences with one element removed or added
RemoveAt(seq, k) == SubSeq(seq, 1, k - 1) \o SubSeq(seq, k + 1, Len(seq))
InsertAfter(seq, k, new) == SubSeq(seq, 1, k) \o new \o SubSeq(seq, k + 1, Len(seq))

\* row.cells: one entry per grid column, by the index of the cell of the row
\* that covers the column; a row with fewer cells than the table has columns
\* ends in a merged cell, which is listed once per column it spans
RowCells(row, width) == [c \in 1..Max(width, Len(row)) |-> Min(c, Len(row))]

\* the number of grid columns of a table (the cells of its first row)
GridWidth(t) == IF Len(t.rows) = 0 THEN 0 ELSE Len(t.rows[1])

\* int(s) for a string of decimal digits
DigitValue(c) == CHOOSE n \in 0..9 : ToString(n) = c
RECURSIVE IntOf(_)
IntOf(s) == IF Len(s) = 0 THEN 0 ELSE 10 * IntOf(SubSeq(s, 1, Len(s) - 1)) + DigitValue(Ch(s, Len(s)))

\* repr(s) of a str without quote, backslash or control character
PyRepr(s) == "'" \o s \o "'"

\* str(exp) of an experience entry: the repr of the dict, its keys in the
\* order the parser creates them
ExperienceStr(exp) ==
    "{'company': " \o PyRepr(exp.company) \o ", 'role': " \o PyRepr(exp.role)
    \o ", 'title': " \o PyRepr(exp.title) \o ", 'duration': " \o PyRepr(exp.duration)
    \o ", 'details': ["
    \o Join(", ", [k \in 1..Len(exp.details) |-> PyRepr(exp.details[k])]) \o "]}"

\* r'(20\d{2})'
ReYear20 == RCat(<<RLit("20"), RRep(RDigit, 2, 2)>>)

\* current_year of _extract_skills_with_details
SkillsCurrentYear == 2025

\* the index of the first experience entry whose str holds the skill name, in
\* any case; 0 without one
FirstMention(skill_name, experience) ==
    With({k \in 1..Len(experience) :
            Contains(Lower(ExperienceStr(experience[k])), Lower(skill_name))},
         LAMBDA found : IF found = {} THEN 0 ELSE CHOOSE k \in found : \A m \in found : k <= m)

\* years_exp and last_used from the duration of the entry that mentions the
\* skill: <<"", "">> when the duration yields none
YearsFromDuration(duration) ==
    With(FindAll(ReYear20, duration, FALSE), LAMBDA year_matches :
        IF Len(year_matches) = 0 THEN <<"", "">>
        ELSE With2(IntOf(year_matches[1]),
                   IF Contains(Lower(duration), "present") \/ Contains(Lower(duration), "current")
                   THEN SkillsCurrentYear
                   ELSE IF Len(year_matches) > 1 THEN IntOf(year_matches[Len(year_matches)])
                   ELSE SkillsCurrentYear,
                   LAMBDA start_year, end_year :
                        IF end_year - start_year > 0
                        THEN <<ToString(end_year - start_year) \o "+ years",
                               IF end_year < SkillsCurrentYear THEN ToString(end_year)
                               ELSE "Present">>
                        ELSE <<"", "">>))

\* one entry of skills_list
SkillDetails(skill_name, experience) ==
    With(FirstMention(skill_name, experience), LAMBDA k :
    With(IF k = 0 THEN <<"", "">> ELSE YearsFromDuration(experience[k].duration),
         LAMBDA found :
            [skill |-> skill_name,
             years |-> IF found[1] = "" THEN "1+ years" ELSE found[1],
             last_used |-> IF found[2] = "" THEN "Recent" ELSE found[2]]))

\* WordFormatter._extract_skills_with_details, for a record whose skills are str
ExtractSkillsWithDetails(d) ==
    [k \in 1..Min(15, Len(d.skills)) |-> SkillDetails(d.skills[k], d.experience)]

\* the index of the last header that is of the column kind, 0 without one:
\* the if / elif chain gives a header to the first kind it matches
LastColumn(header_texts, kind) ==
    With({c \in 1..Len(header_texts) :
            With2(Contains(header_texts[c], "skill") \/ Contains(header_texts[c], "technology"),
                  Contains(header_texts[c], "years") \/ Contains(header_texts[c], "experience"),
                  LAMBDA is_skill, is_years :
                    CASE kind = "skill" -> is_skill
                      [] kind = "years" -> ~is_skill /\ is_years
                      [] kind = "last_used" ->
                            /\ ~is_skill /\ ~is_years
                            /\ \/ Contains(header_texts[c], "last")
                               \/ Contains(header_texts[c], "recent"))},
         LAMBDA found : IF found = {} THEN 0 ELSE CHOOSE c \in found : \A m \in found : m <= c)

\* table.add_row() with the cells of the found columns set: cell.text = value
\* leaves one paragraph of one run, the other cells hold an empty paragraph
SkillRow(width, skill_info, skill_col, years_col, last_used_col) ==
    [c \in 1..width |->
        IF c = skill_col THEN <<Para(<<skill_info.skill>>)>>
        ELSE IF c = years_col THEN <<Para(<<skill_info.years>>)>>
        ELSE IF c = last_used_col THEN <<Para(<<skill_info.last_used>>)>>
        ELSE <<Para(<<>>)>>]

\* WordFormatter._fill_skills_table(table): the table after the call and the
\* count it returns
FillSkillsTable(t, d) ==
    IF Len(t.rows) < 2 THEN [table |-> t, returned |-> 0]
    ELSE With(HeaderTexts(t), LAMBDA header_texts :
         With(ExtractSkillsWithDetails(d), LAMBDA skills_data :
            IF LastColumn(header_texts, "skill") = 0 \/ Len(skills_data) = 0
            THEN [table |-> t, returned |-> 0]
            ELSE [table |->
                    Tbl(<<t.rows[1]>>
                        \o [k \in 1..Min(15, Len(skills_data)) |->
                                SkillRow(GridWidth(t), skills_data[k],
                                         LastColumn(header_texts, "skill"),
                                         LastColumn(header_texts, "years"),
                                         LastColumn(header_texts, "last_used"))]),
                  returned |-> Min(15, Len(skills_data))]))

\* the text of the w:t nodes of a paragraph: the line breaks of its runs are
\* elements of their own
TextNodes(runs) == Replace(ParagraphText(runs), "\n", "")

\* node.xpath('.//w:p') of a table: the texts of all its paragraphs, those of
\* nested tables included, in document order
RECURSIVE ElementsParagraphs(_)
RECURSIVE CellsParagraphs(_)
RECURSIVE RowsParagraphs(_)
ElementsParagraphs(elements) ==
    IF Len(elements) = 0 THEN <<>>
    ELSE (IF Head(elements).tag = "p" THEN <<TextNodes(Head(elements).runs)>>
          ELSE RowsParagraphs(Head(elements).rows))
         \o ElementsParagraphs(Tail(elements))
CellsParagraphs(cells) ==
    IF Len(cells) = 0 THEN <<>>
    ELSE ElementsParagraphs(Head(cells)) \o CellsParagraphs(Tail(cells))
RowsParagraphs(rows) ==
    IF Len(rows) = 0 THEN <<>>
    ELSE CellsParagraphs(Head(rows)) \o RowsParagraphs(Tail(rows))

\* the keywords at which the scans under a heading stop
HeadingStopWords ==
    <<"EDUCATION", "SKILLS", "SUMMARY", "PROJECT", "CERTIFICATION", "EXPERIENCE",
      "WORK EXPERIENCE", "EMPLOYMENT HISTORY">>

BulletMarks == {Bullet, "-", EnDash, EmDash, "*", BlackCircle}

\* r'^\d+[\).\-\s]'
ReNumbered == RCat(<<RBol, RPlus(RDigit), RSet({")", ".", "-"} \cup SpaceSet)>>)

\* is_bullet or is_numbered
IsBulletLike(txt) ==
    \/ txt # "" /\ Ch(txt, 1) \in BulletMarks
    \/ Matches(ReNumbered, txt, FALSE)

\* txt = (text or '').strip() of a paragraph node
NodeText(node) == Strip(TextNodes(node.runs))

\* the node is a paragraph that neither loop stops at: no heading stop word
\* in it, and a bullet or a numbered line
IsBulletNode(node) ==
    /\ node.tag = "p"
    /\ ~ContainsAny(Upper(NodeText(node)), HeadingStopWords)
    /\ IsBulletLike(NodeText(node))

\* the number of nodes from the k-th sibling on that the while loop of
\* _delete_following_bullets and _collect_bullets_after_heading passes before
\* it stops: the bullet nodes in a row, max_scan of them at most (the loop
\* stops at a table, a heading stop word, a paragraph that is no bullet, the
\* end of the siblings, and after max_scan nodes)
BulletRun(siblings, k, max_scan) ==
    With(SubSeq([m \in 1..Len(siblings) |-> IsBulletNode(siblings[m])], 1, Len(siblings)),
         LAMBDA is_bullet :
            Cardinality({n \in 1..Min(max_scan, Len(siblings) - k + 1) :
                            \A m \in k..(k + n - 1) : is_bullet[m]}))

\* the loop of _delete_following_bullets at the k-th sibling, after `scanned`
\* nodes: the nodes of the run are removed
DeleteBulletsFrom(siblings, k, scanned) ==
    With(BulletRun(siblings, k, 40 - scanned), LAMBDA run :
        SubSeq(siblings, 1, k - 1) \o SubSeq(siblings, k + run, Len(siblings)))

\* WordFormatter._delete_following_bullets(paragraph), the paragraph being the
\* j-th of its siblings (the children of the body or of a cell)
DeleteFollowingBullets(siblings, j) == DeleteBulletsFrom(siblings, j + 1, 0)

\* text.lstrip(' •–—-*●')
LStripBullets(txt) == LStripSet(txt, {" "} \cup BulletMarks)

\* [text.lstrip(...) for the paragraphs of the table whose stripped text is not empty]
RECURSIVE TableBullets(_)
TableBullets(texts) ==
    IF Len(texts) = 0 THEN <<>>
    ELSE (IF Strip(Head(texts)) # "" THEN <<LStripBullets(Strip(Head(texts)))>> ELSE <<>>)
         \o TableBullets(Tail(texts))

\* the loop of _collect_bullets_after_heading at the k-th sibling, after
\* `scanned` nodes: the texts of the nodes of the run, and those of the table
\* the loop stops at
CollectBulletsFrom(siblings, k, scanned) ==
    With(BulletRun(siblings, k, 50 - scanned), LAMBDA run :
        [m \in 1..run |-> LStripBullets(NodeText(siblings[k + m - 1]))]
        \o (IF run < 50 - scanned /\ k + run <= Len(siblings) /\ siblings[k + run].tag = "tbl"
            THEN TableBullets(RowsParagraphs(siblings[k + run].rows))
            ELSE <<>>))

\* WordFormatter._collect_bullets_after_heading(paragraph)
CollectBulletsAfterHeading(siblings, j) == CollectBulletsFrom(siblings, j + 1, 0)

\* WordFormatter._delete_next_table(paragraph)
DeleteNextTable(siblings, j) ==
    IF j + 1 <= Len(siblings) /\ siblings[j + 1].tag = "tbl" THEN RemoveAt(siblings, j + 1)
    ELSE siblings

\* r'(?:19|20)\d{2}'
ReYearAnywhere == RCat(<<RAlt(<<RLit("19"), RLit("20")>>), RRep(RDigit, 2, 2)>>)

\* the index of the first bullet from j on that holds a year, or one past the end
RECURSIVE NextDated(_, _)
NextDated(bullets, j) ==
    IF j > Len(bullets) \/ Matches(ReYearAnywhere, bullets[j], FALSE) THEN j
    ELSE NextDated(bullets, j + 1)

\* the while loop of _build_experience_from_bullets from index i (1-based)
RECURSIVE ExperienceFromBullets(_, _)
ExperienceFromBullets(bullets, i) ==
    IF i > Len(bullets) THEN <<>>
    ELSE IF Matches(ReYearAnywhere, bullets[i], FALSE)
         THEN With(NextDated(bullets, i + 2), LAMBDA j :
                <<[company |-> IF i + 1 <= Len(bullets)
                               THEN Strip(Sub(ReLocation, "", bullets[i + 1], TRUE)) ELSE "",
                   role |-> StripSet(Sub(ReConnectorWord, "",
                                         Sub(ReYear, "",
                                             Sub(ReMonthYear, "", bullets[i], TRUE), FALSE),
                                         TRUE),
                                     {" ", ",", ";", ":", "-"}),
                   title |-> "",
                   duration |-> CleanDuration(bullets[i]),
                   details |-> SubSeq(bullets, i + 2, j - 1)]>>
                \o ExperienceFromBullets(bullets, j))
         ELSE ExperienceFromBullets(bullets, i + 1)

\* WordFormatter._build_experience_from_bullets
BuildExperienceFromBullets(bullets) == ExperienceFromBullets(bullets, 1)

\* the while loop of _build_education_from_bullets from index i (1-based)
RECURSIVE EducationFromBullets(_, _)
EducationFromBullets(bullets, i) ==
    IF i > Len(bullets) THEN <<>>
    ELSE With(SearchFrom(ReInstitution, bullets[i], 0, TRUE), LAMBDA m :
            IF m.found
            THEN <<[degree |-> Strip(StripSet(SubSeq(bullets[i], 1, m.start),
                                              {" ", ",", ";", ":", "-"})),
                    institution |-> Strip(Sub(ReLocation, "",
                                              Strip(SubSeq(bullets[i], m.start + 1, Len(bullets[i]))),
                                              TRUE)),
                    year |-> CleanDuration(bullets[i]), details |-> <<>>]>>
                 \o EducationFromBullets(bullets, i + 1)
            ELSE IF i + 1 <= Len(bullets) /\ Matches(ReYearAnywhere, bullets[i + 1], FALSE)
                 THEN <<[degree |-> Strip(bullets[i]), institution |-> "",
                         year |-> CleanDuration(bullets[i + 1]), details |-> <<>>]>>
                      \o EducationFromBullets(bullets, i + 2)
                 ELSE <<[degree |-> Strip(bullets[i]), institution |-> "",
                         year |-> CleanDuration(bullets[i]), details |-> <<>>]>>
                      \o EducationFromBullets(bullets, i + 1))

\* WordFormatter._build_education_from_bullets
BuildEducationFromBullets(bullets) == EducationFromBullets(bullets, 1)

\* r'\s+at\s+'
ReSpacedAtWord == RCat(<<RPlus(RSpace), RLit("at"), RPlus(RSpace)>>)

\* WordFormatter._parse_company_role(title): <<company, role>>
ParseCompanyRole(title) ==
    IF Contains(title, " - ")
    THEN With(SplitOnce(title, " - "), LAMBDA parts : <<Strip(parts[1]), Strip(parts[2])>>)
    ELSE IF Contains(Lower(title), " at ")
         THEN With(ReSplit(ReSpacedAtWord, title, TRUE), LAMBDA parts :
                <<IF Len(parts) > 1 THEN Strip(parts[2]) ELSE "", Strip(parts[1])>>)
    ELSE IF Contains(title, ", ")
         THEN With(SplitOnce(title, ", "), LAMBDA parts : <<Strip(parts[2]), Strip(parts[1])>>)
    ELSE <<Strip(title), "">>

\* the first detail that names an institution, stripped, or ""
RECURSIVE InstitutionDetail(_)
InstitutionDetail(details) ==
    IF Len(details) = 0 THEN ""
    ELSE IF ContainsAny(Lower(Head(details)),
                        <<"university", "college", "institute", "school", "academy">>)
         THEN Strip(Head(details))
         ELSE InstitutionDetail(Tail(details))

\* WordFormatter._extract_institution(degree, details)
ExtractInstitution(degree, details) ==
    IF Contains(degree, ", ") THEN Strip(SplitOnce(degree, ", ")[2])
    ELSE InstitutionDetail(details)

\* the runs detail_para gets in an experience block: for detail in details[:6]
RECURSIVE ExperienceDetailRuns(_)
ExperienceDetailRuns(details) ==
    IF Len(details) = 0 THEN <<>>
    ELSE (IF Strip(Head(details)) = "" THEN <<>>
          ELSE IF StartsWith(Strip(Head(details)), Bullet) \/ StartsWith(Strip(Head(details)), "-")
               THEN <<Strip(Head(details)) \o "\n">>
               ELSE <<"   " \o Bullet \o " " \o Strip(Head(details)) \o "\n">>)
         \o ExperienceDetailRuns(Tail(details))

\* the runs detail_para gets in an education block: for detail in details[:3]
RECURSIVE EducationDetailRuns(_, _)
EducationDetailRuns(details, institution) ==
    IF Len(details) = 0 THEN <<>>
    ELSE (IF Strip(Head(details)) # "" /\ Lower(Strip(Head(details))) # Lower(institution)
          THEN <<"   - " \o Strip(Head(details)) \o "\n">> ELSE <<>>)
         \o EducationDetailRuns(Tail(details), institution)

\* the table of a structured block: a row of two cells, the heading text left
\* and the years right, and for an entry with details a second row whose two
\* cells are merged into one
BlockTable(left_text, right_text, has_details, detail_runs) ==
    Tbl(<< <<  <<Para(<<left_text>>)>>, <<Para(<<right_text>>)>>  >> >>
        \o (IF has_details THEN << << <<Para(detail_runs)>> >> >> ELSE <<>>))

\* the table _insert_experience_block builds for an entry
ExperienceBlock(exp_data) ==
    With(IF exp_data.company = "" /\ exp_data.role = ""
         THEN ParseCompanyRole(exp_data.title)
         ELSE <<exp_data.company, exp_data.role>>, LAMBDA cr :
        BlockTable(IF cr[1] # "" /\ cr[2] # ""
                   THEN Upper(cr[1]) \o " " \o EnDash \o " " \o Upper(cr[2])
                   ELSE IF cr[1] # "" THEN Upper(cr[1])
                   ELSE IF cr[2] # "" THEN Upper(cr[2])
                   ELSE Upper(exp_data.title),
                   CleanDuration(exp_data.duration),
                   Len(exp_data.details) > 0,
                   ExperienceDetailRuns(Take(exp_data.details, 6))))

\* the table _insert_education_block builds for an entry
EducationBlock(edu_data) ==
    With(IF edu_data.institution = ""
         THEN ExtractInstitution(edu_data.degree, edu_data.details)
         ELSE edu_data.institution, LAMBDA institution :
        BlockTable(IF edu_data.degree # "" /\ institution # ""
                   THEN Upper(edu_data.degree) \o "  " \o Upper(institution)
                   ELSE IF edu_data.degree # "" THEN Upper(edu_data.degree)
                   ELSE IF institution # "" THEN Upper(institution)
                   ELSE "EDUCATION",
                   CleanDuration(edu_data.year),
                   Len(edu_data.details) > 0,
                   EducationDetailRuns(Take(edu_data.details, 3), institution)))

\* the blocks of the entries, in order
ExperienceBlocks(entries) == [k \in 1..Len(entries) |-> ExperienceBlock(entries[k])]
EducationBlocks(entries) == [k \in 1..Len(entries) |-> EducationBlock(entries[k])]

\* for entry in entries: table = insert after last_element; last_element =
\* table.rows[0].cells[0].paragraphs[0].  The first table goes after the anchor;
\* each later one goes after the first paragraph of the table before it, which
\* is inside that table's first cell
RECURSIVE ChainedBlocks(_)
ChainedBlocks(blocks) ==
    IF Len(blocks) = 1 THEN blocks[1]
    ELSE With(ChainedBlocks(Tail(blocks)), LAMBDA later :
            [blocks[1] EXCEPT !.rows[1][1] = InsertAfter(@, 1, <<later>>)])

\* _insert_table_after for each block in turn, the anchor being the j-th of
\* its siblings
InsertBlocks(siblings, j, blocks) ==
    IF Len(blocks) = 0 THEN siblings
    ELSE InsertAfter(siblings, j, <<ChainedBlocks(blocks)>>)

\* section_placeholders of _add_sections_content, as (section_key, placeholder)
\* pairs in the order the two loops visit them
SectionPlaceholders ==
    << <<"experience", "<List candidate's relevant employment history>">>,
       <<"experience", "<List employment history>">>,
       <<"experience", "<Employment History>">>,
       <<"experience", "<Work Experience>">>,
       <<"experience", "<Professional Experience>">>,
       <<"experience", "<Career History>">>,
       <<"experience", "<History of Employment>">>,
       <<"experience", "<History of the Employer>">>,
       <<"experience", "<Employer History>">>,
       <<"experience", "<Experience details>">>,
       <<"experience", "List relevant employment history">>,
       <<"experience", "List the employment history">>,
       <<"education", "<List candidate's education background>">>,
       <<"education", "<List education background>">>,
       <<"education", "<Education Background>">>,
       <<"education", "<Education details>">>,
       <<"education", "List education background">>,
       <<"skills", "<List skills>">>,
       <<"skills", "<Skills>">>,
       <<"skills", "<Technical Skills>">>,
       <<"skills", "List skills">>,
       <<"summary", "<Professional Summary>">>,
       <<"summary", "<Summary>">>,
       <<"summary", "<Objective>">>,
       <<"summary", "Professional summary">> >>

\* the items of content as bullet lines: stripped, empty ones left out, a
\* bullet and a space put before those that do not start with a bullet
RECURSIVE ContentLines(_)
ContentLines(content) ==
    IF Len(content) = 0 THEN <<>>
    ELSE (IF Strip(Head(content)) = "" THEN <<>>
          ELSE IF StartsWith(Strip(Head(content)), Bullet) THEN <<Strip(Head(content))>>
          ELSE <<Bullet \o " " \o Strip(Head(content))>>)
         \o ContentLines(Tail(content))

\* for run in paragraph.runs: run.text = ''
ClearRuns(siblings, j) ==
    [siblings EXCEPT ![j].runs = [k \in 1..Len(siblings[j].runs) |-> ""]]

\* the body of the placeholder loop for one placeholder found in para_text:
\* structured blocks for experience and education entries, else the
\* placeholder replaced by the bullet lines of the matching resume section
PlaceholderFound(body, j, d, section_key, placeholder) ==
    IF section_key = "experience" /\ Len(d.experience) > 0
    THEN InsertBlocks(DeleteFollowingBullets(ClearRuns(body, j), j), j,
                      ExperienceBlocks(Take(d.experience, 10)))
    ELSE IF section_key = "education" /\ Len(d.education) > 0
    THEN InsertBlocks(DeleteFollowingBullets(ClearRuns(body, j), j), j,
                      EducationBlocks(Take(d.education, 5)))
    ELSE With(FindMatchingResumeSection(section_key, d.sections), LAMBDA content :
            IF Len(content) = 0 THEN body
            ELSE [body EXCEPT ![j].runs =
                    Rebuild(@, SubEscaped(placeholder,
                                          Join("\n", ContentLines(Take(content, 10))),
                                          ParagraphText(@)))])

\* the placeholder loops for the j-th element of the body, a paragraph whose
\* stripped text was para_text when the loops began, from the k-th pair on
RECURSIVE PlaceholdersFrom(_, _, _, _, _)
PlaceholdersFrom(body, j, d, para_text, k) ==
    IF k > Len(SectionPlaceholders) THEN body
    ELSE IF Contains(Lower(para_text), Lower(SectionPlaceholders[k][2]))
         THEN With(PlaceholderFound(body, j, d, SectionPlaceholders[k][1],
                                    SectionPlaceholders[k][2]),
                   LAMBDA done : PlaceholdersFrom(done, j, d, para_text, k + 1))
         ELSE PlaceholdersFrom(body, j, d, para_text, k + 1)

\* some placeholder is in the paragraph text
HoldsSectionPlaceholder(para_text) ==
    \E k \in 1..Len(SectionPlaceholders) :
        Contains(Lower(para_text), Lower(SectionPlaceholders[k][2]))

\* the index of the first paragraph of the body from the i-th element on
\* that holds a placeholder, 0 without one
NextPlaceholderParagraph(body, i) ==
    With({k \in i..Len(body) :
            body[k].tag = "p" /\ HoldsSectionPlaceholder(Strip(ParagraphText(body[k].runs)))},
         LAMBDA found : IF found = {} THEN 0 ELSE CHOOSE k \in found : \A m \in found : k <= m)

\* the first loop of _add_sections_content over doc.paragraphs, from the i-th
\* element of the body on; a table is no paragraph of the body, and a
\* paragraph that holds no placeholder changes nothing
RECURSIVE PlaceholderPassFrom(_, _, _)
PlaceholderPassFrom(body, i, d) ==
    With(NextPlaceholderParagraph(body, i), LAMBDA j :
        IF j = 0 THEN body
        ELSE With(PlaceholdersFrom(body, j, d, Strip(ParagraphText(body[j].runs)), 1),
                  LAMBDA done : PlaceholderPassFrom(done, j + 1, d)))

\* section_markers
SectionMarkerKeys == <<"experience", "education", "skills", "summary">>
SectionMarkers(section_key) ==
    CASE section_key = "experience" ->
            <<"EMPLOYMENT HISTORY", "WORK EXPERIENCE", "PROFESSIONAL EXPERIENCE", "EXPERIENCE",
              "CAREER HISTORY", "HISTORY OF EMPLOYMENT", "HISTORY OF THE EMPLOYER",
              "EMPLOYER HISTORY">>
      [] section_key = "education" -> <<"EDUCATION", "ACADEMIC BACKGROUND", "QUALIFICATIONS">>
      [] section_key = "skills" -> <<"SKILLS", "TECHNICAL SKILLS", "CORE COMPETENCIES">>
      [] section_key = "summary" -> <<"SUMMARY", "PROFESSIONAL SUMMARY", "OBJECTIVE", "PROFILE">>

\* the experience branch at a heading, the j-th of its siblings: the record's
\* entries, or those built from the raw bullets under it; with entries the
\* bullets under the heading (in a cell: and the table after it) are deleted
\* and the blocks inserted
ExperienceAtHeading(siblings, j, d, in_cell) ==
    With(IF Len(d.experience) > 0 THEN d.experience
         ELSE BuildExperienceFromBullets(CollectBulletsAfterHeading(siblings, j)),
         LAMBDA experiences :
            IF Len(experiences) = 0 THEN siblings
            ELSE With(DeleteFollowingBullets(siblings, j), LAMBDA cleaned :
                    InsertBlocks(IF in_cell THEN DeleteNextTable(cleaned, j) ELSE cleaned, j,
                                 ExperienceBlocks(Take(experiences, 10)))))

\* the education branch at a heading
EducationAtHeading(siblings, j, d, in_cell) ==
    With(IF Len(d.education) > 0 THEN d.education
         ELSE BuildEducationFromBullets(CollectBulletsAfterHeading(siblings, j)),
         LAMBDA education :
            IF Len(education) = 0 THEN siblings
            ELSE With(DeleteFollowingBullets(siblings, j), LAMBDA cleaned :
                    InsertBlocks(IF in_cell THEN DeleteNextTable(cleaned, j) ELSE cleaned, j,
                                 EducationBlocks(Take(education, 5)))))

\* the skills and summary branch at a heading: a bullet paragraph per item of
\* the matching resume section, one after the other after the heading.  The
\* paragraphs are tagged as new until the loop over the paragraphs the body
\* had at its start is over
BulletsAtHeading(body, j, d, section_key) ==
    With(ContentLines(Take(FindMatchingResumeSection(section_key, d.sections), 10)),
         LAMBDA items :
            InsertAfter(body, j,
                        [k \in 1..Len(items) |->
                            [tag |-> "new_p", runs |-> <<items[k]>>, rows |-> <<>>]]))

\* for section_key, markers in section_markers.items() from the k-th key on,
\* for the j-th element of the body, whose text was para_text_upper
RECURSIVE MarkersFrom(_, _, _, _, _)
MarkersFrom(body, j, d, para_text_upper, k) ==
    IF k > Len(SectionMarkerKeys) THEN body
    ELSE IF ContainsAny(para_text_upper, SectionMarkers(SectionMarkerKeys[k]))
         THEN With(IF SectionMarkerKeys[k] = "experience"
                   THEN ExperienceAtHeading(body, j, d, FALSE)
                   ELSE IF SectionMarkerKeys[k] = "education"
                   THEN EducationAtHeading(body, j, d, FALSE)
                   ELSE BulletsAtHeading(body, j, d, SectionMarkerKeys[k]),
                   LAMBDA done : MarkersFrom(done, j, d, para_text_upper, k + 1))
         ELSE MarkersFrom(body, j, d, para_text_upper, k + 1)

\* the generic heading catch-all: HISTORY and one of EMPLOY, EMPLOYER, WORK, CAREER
GenericHistoryHeading(body, j, d, para_text_upper) ==
    IF Contains(para_text_upper, "HISTORY")
        /\ ContainsAny(para_text_upper, <<"EMPLOY", "EMPLOYER", "WORK", "CAREER">>)
        /\ Len(d.experience) > 0
    THEN InsertBlocks(DeleteFollowingBullets(body, j), j,
                      ExperienceBlocks(Take(d.experience, 10)))
    ELSE body

\* the text holds a marker of some section, or HISTORY
IsSectionHeading(para_text_upper) ==
    \/ \E k \in 1..Len(SectionMarkerKeys) :
            ContainsAny(para_text_upper, SectionMarkers(SectionMarkerKeys[k]))
    \/ Contains(para_text_upper, "HISTORY")

\* the index of the first heading paragraph of the body from the i-th element
\* on, 0 without one
NextHeadingParagraph(body, i) ==
    With({k \in i..Len(body) :
            body[k].tag = "p" /\ IsSectionHeading(Strip(Upper(ParagraphText(body[k].runs))))},
         LAMBDA found : IF found = {} THEN 0 ELSE CHOOSE k \in found : \A m \in found : k <= m)

\* the second loop over doc.paragraphs, from the i-th element of the body on;
\* a paragraph that is no heading changes nothing
RECURSIVE HeadingPassFrom(_, _, _)
HeadingPassFrom(body, i, d) ==
    With(NextHeadingParagraph(body, i), LAMBDA j :
        IF j = 0 THEN body
        ELSE With(Strip(Upper(ParagraphText(body[j].runs))), LAMBDA para_text_upper :
             With(MarkersFrom(body, j, d, para_text_upper, 1), LAMBDA marked :
             With(GenericHistoryHeading(marked, j, d, para_text_upper), LAMBDA done :
                    HeadingPassFrom(done, j + 1, d)))))

\* the paragraphs the second loop inserted are paragraphs like the others
Settled(body) ==
    [k \in 1..Len(body) |-> IF body[k].tag = "new_p" THEN Para(body[k].runs) ELSE body[k]]

\* PASS 3 for one paragraph of a cell, the j-th element of the cell
CellHeading(cell, j, d) ==
    With(Strip(Upper(ParagraphText(cell[j].runs))), LAMBDA para_text_upper :
    With(IF ContainsAny(para_text_upper, SectionMarkers("experience"))
         THEN ExperienceAtHeading(cell, j, d, TRUE) ELSE cell, LAMBDA done :
        IF ContainsAny(para_text_upper, SectionMarkers("education"))
        THEN EducationAtHeading(done, j, d, TRUE) ELSE done))

\* for paragraph in cell.paragraphs, from the j-th element of the cell on
RECURSIVE CellPassFrom(_, _, _)
CellPassFrom(cell, j, d) ==
    IF j > Len(cell) THEN cell
    ELSE IF cell[j].tag = "p"
         THEN With(CellHeading(cell, j, d), LAMBDA done : CellPassFrom(done, j + 1, d))
         ELSE CellPassFrom(cell, j + 1, d)

\* for cell in row.cells, from the c-th entry of row.cells on, in row r of table t
RECURSIVE RowPassFrom(_, _, _, _)
RowPassFrom(t, r, c, d) ==
    IF c > Len(RowCells(t.rows[r], GridWidth(t))) THEN t
    ELSE With(RowCells(t.rows[r], GridWidth(t))[c], LAMBDA cell_index :
         With([t EXCEPT !.rows[r][cell_index] = CellPassFrom(@, 1, d)], LAMBDA done :
            RowPassFrom(done, r, c + 1, d)))

\* for row in table.rows, from row r on
RECURSIVE TablePassFrom(_, _, _)
TablePassFrom(t, r, d) ==
    IF r > Len(t.rows) THEN t
    ELSE With(RowPassFrom(t, r, 1, d), LAMBDA done : TablePassFrom(done, r + 1, d))

\* PASS 3: for table in doc.tables, the tables of the body, those the earlier
\* loops inserted there included
TablesPass(body, d) ==
    [i \in 1..Len(body) |->
        IF body[i].tag = "tbl" THEN TablePassFrom(body[i], 1, d) ELSE body[i]]

-----------------------------------------------------------------------------
(* Template reconciliation: the flow-document formatters *)

\* Python values of the template profile: a key may be missing, None or a str
Absent == [py |-> "absent"]
PyNone == [py |-> "None"]
PyStr(s) == [py |-> "str", s |-> s]
\* dict.get(key)
Get(v) == IF v.py = "absent" THEN PyNone ELSE v
\* the truth value of `not x`
Falsy(v) == v.py = "None" \/ (v.py = "str" /\ v.s = "")

\* files on disk
DocxFile(doc) == [fmt |-> "docx", doc |-> doc]
DocFile(doc) == [fmt |-> "doc", doc |-> doc]
PdfFile(overlay) == [fmt |-> "pdf", overlay |-> overlay]

\* Document(path) succeeds on a .docx package on disk and raises otherwise
OpensAsDocx(dsk, path) == path \in DOMAIN dsk /\ dsk[path].fmt = "docx"
\* PdfReader(path) with a first page
OpensAsPdf(dsk, path) == path \in DOMAIN dsk /\ dsk[path].fmt = "pdf"

\* disk with one more (or one replaced) file
WriteFile(dsk, path, file) ==
    [p \in DOMAIN dsk \cup {path} |-> IF p = path THEN file ELSE dsk[p]]
RemoveFile(dsk, path) == [p \in DOMAIN dsk \ {path} |-> dsk[p]]

\* one body paragraph of WordFormatter._format_docx_file: a paragraph without text
\* is skipped; then the literal tokens, the name patterns, the generic name
\* pattern, the employment patterns and the education pattern
FormatBodyParagraph(runs, d, replacements) ==
    IF Strip(ParagraphText(runs)) = "" THEN runs
    ELSE With(ReplaceAll(runs, replacements), LAMBDA literal :
         With(ReplaceNames(literal, NamePatterns, FallbackName(d)), LAMBDA named :
         With(ReplaceNames(named, <<GenericNamePattern>>, FallbackName(d)), LAMBDA generic :
         With(ReplaceEmployment(generic, EmpPatterns,
                                FindMatchingResumeSection("experience", d.sections)),
              LAMBDA employment :
                ReplaceEducation(employment,
                                 FindMatchingResumeSection("education", d.sections))))))

\* WordFormatter._add_sections_content: the placeholder loop, the heading loop
\* and the loop over the tables of the body
AddSectionsContent(doc, d) ==
    [doc EXCEPT !.body =
        TablesPass(Settled(HeadingPassFrom(PlaceholderPassFrom(@, 1, d), 1, d)), d)]

\* the number of entries of row.cells that are the c-th cell of row r
Span(t, r, c) ==
    IF c = Len(t.rows[r]) THEN Max(GridWidth(t) - Len(t.rows[r]) + 1, 1) ELSE 1

\* the literal tokens replaced in the paragraphs of a cell, once per entry of
\* row.cells that is this cell
RECURSIVE ReplaceInCell(_, _, _)
ReplaceInCell(cell, replacements, times) ==
    IF times = 0 THEN cell
    ELSE ReplaceInCell([k \in 1..Len(cell) |->
                            IF cell[k].tag = "p"
                            THEN Para(ReplaceAll(cell[k].runs, replacements))
                            ELSE cell[k]],
                       replacements, times - 1)

\* the table loop of _format_docx_file for a table that is no skills table
ReplaceInTable(t, replacements) ==
    Tbl([r \in 1..Len(t.rows) |->
            [c \in 1..Len(t.rows[r]) |->
                ReplaceInCell(t.rows[r][c], replacements, Span(t, r, c))]])

\* what _format_docx_file saves: the paragraphs of the body, its tables (a
\* skills table is filled, the others get the literal tokens), header and
\* footer paragraphs, then the section content
FormattedDocx(doc, d) ==
    With(CreateReplacementMap(d), LAMBDA replacements :
        AddSectionsContent(
            [body |-> [k \in 1..Len(doc.body) |->
                            IF doc.body[k].tag = "p"
                            THEN Para(FormatBodyParagraph(doc.body[k].runs, d, replacements))
                            ELSE IF IsSkillsTable(doc.body[k])
                            THEN FillSkillsTable(doc.body[k], d).table
                            ELSE ReplaceInTable(doc.body[k], replacements)],
             header |-> [k \in 1..Len(doc.header) |-> ReplaceAll(doc.header[k], replacements)],
             footer |-> [k \in 1..Len(doc.footer) |-> ReplaceAll(doc.footer[k], replacements)]],
            d))

\* the attributes __init__ gives a formatter (both classes alike)
Self(d, ta, out) ==
    [resume_data |-> d, template_analysis |-> ta, output_path |-> out,
     template_path |-> Get(ta.template_path), template_type |-> Get(ta.template_type)]

\* a result of an entry point or of one of its stages: returned value or raised
\* error, the formatter that ran and its attributes afterwards, and the disk and
\* the templates opened afterwards
Returned(value, via, self, dsk, opn) ==
    [kind |-> "returned", value |-> value, error |-> "", via |-> via, self |-> self,
     disk |-> dsk, opened |-> opn]
Raised(error, self, dsk, opn) ==
    [kind |-> "raised", value |-> FALSE, error |-> error, via |-> "none", self |-> self,
     disk |-> dsk, opened |-> opn]

\* except Exception: ... return False
Caught(result) ==
    IF result.kind = "raised"
    THEN Returned(FALSE, "none", result.self, result.disk, result.opened)
    ELSE result

\* WordFormatter._format_docx_file.  Document(self.template_path) raises for
\* anything but a .docx package; doc.save raises when the output cannot be
\* written (save_ok false) and then leaves no file.  office_ok: the Word
\* automation this call may use works
FormatDocxFile(self, dsk, win32, office_ok, save_ok) ==
    IF ~OpensAsDocx(dsk, self.template_path.s)
    THEN Raised("PackageNotFoundError", self, dsk, {})
    ELSE IF ~save_ok THEN Raised("OSError", self, dsk, {self.template_path.s})
    ELSE With(WriteFile(dsk, Replace(self.output_path, ".pdf", ".docx"),
                        DocxFile(FormattedDocx(dsk[self.template_path.s].doc,
                                               self.resume_data))),
              LAMBDA saved :
                Returned(TRUE, "word", self,
                         IF EndsWith(self.output_path, ".pdf") /\ win32 /\ office_ok
                         THEN WriteFile(saved, self.output_path, PdfFile(<<>>))
                         ELSE saved,
                         {self.template_path.s}))

\* doc_path.replace('.doc', '_temp.docx')
TempDocx(doc_path) == Replace(doc_path, ".doc", "_temp.docx")

\* WordFormatter._format_doc_file: the cleanup after _format_docx_file is
\* reached when that call returns; an exception of it leaves the method
FormatDocFile(self, dsk, win32, office_ok, save_ok) ==
    IF ~win32 THEN Returned(FALSE, "none", self, dsk, {})
    ELSE IF ~(office_ok /\ self.template_path.s \in DOMAIN dsk
                /\ dsk[self.template_path.s].fmt \in {"doc", "docx"})
         THEN Returned(FALSE, "none", self, dsk, {})
    ELSE With(TempDocx(self.template_path.s), LAMBDA docx_path :
         With(FormatDocxFile([self EXCEPT !.template_path = PyStr(docx_path)],
                             WriteFile(dsk, docx_path, DocxFile(dsk[self.template_path.s].doc)),
                             win32, office_ok, save_ok),
              LAMBDA result :
                IF result.kind = "raised"
                THEN [result EXCEPT !.opened = @ \cup {self.template_path.s}]
                ELSE Returned(result.value, result.via,
                              [result.self EXCEPT !.template_path = self.template_path],
                              RemoveFile(result.disk, docx_path),
                              result.opened \cup {self.template_path.s})))

\* WordFormatter.format(): os.path.basename(None) raises TypeError before the
\* try; an exception of the stage it runs is caught and False returned
WordFormatterFormat(self, dsk, win32, office_ok, save_ok) ==
    IF self.template_path.py = "None" THEN Raised("TypeError", self, dsk, {})
    ELSE Caught(IF EndsWith(Lower(self.template_path.s), ".doc")
                THEN FormatDocFile(self, dsk, win32, office_ok, save_ok)
                ELSE FormatDocxFile(self, dsk, win32, office_ok, save_ok))

\* format_word_document(resume_data, template_analysis, output_path)
FormatWordDocumentCall(d, ta, out, dsk, win32, office_ok, save_ok) ==
    WordFormatterFormat(Self(d, ta, out), dsk, win32, office_ok, save_ok)

\* the replacements of IntelligentFormatter._format_docx, in insertion order:
\* every token is registered, whatever the field holds
BasicReplacements(d) ==
    << <<"[NAME]", d.name>>, <<"[Email]", d.email>>, <<"[PHONE]", d.phone>>,
       <<"[ADDRESS]", d.address>>, <<"[LINKEDIN]", d.linkedin>>, <<"[DOB]", d.dob>>,
       <<"Your Name", d.name>>, <<"your.email@example.com", d.email>>,
       <<"(123) 456-7890", d.phone>>, <<"linkedin.com/in/username", d.linkedin>> >>

\* for key, value in replacements.items(): the paragraph is tested without case,
\* each run likewise, and run.text.replace(key, value) replaces with case
\* (the pairs lo..hi of replacements, in order)
RECURSIVE BasicReplaceAllIn(_, _, _, _)
BasicReplaceAllIn(runs, replacements, lo, hi) ==
    IF lo > hi THEN runs
    ELSE IF lo = hi
         THEN IF Contains(Lower(ParagraphText(runs)), Lower(replacements[lo][1]))
              THEN [k \in 1..Len(runs) |->
                      IF Contains(Lower(runs[k]), Lower(replacements[lo][1]))
                      THEN Replace(runs[k], replacements[lo][1], replacements[lo][2])
                      ELSE runs[k]]
              ELSE runs
    ELSE With(BasicReplaceAllIn(runs, replacements, lo, (lo + hi) \div 2), LAMBDA done :
            BasicReplaceAllIn(done, replacements, (lo + hi) \div 2 + 1, hi))

BasicReplaceAll(runs, replacements) ==
    BasicReplaceAllIn(runs, replacements, 1, Len(replacements))

\* the replacements of _format_docx in the paragraphs of a cell, once per entry
\* of row.cells that is this cell
RECURSIVE BasicReplaceInCell(_, _, _)
BasicReplaceInCell(cell, replacements, times) ==
    IF times = 0 THEN cell
    ELSE BasicReplaceInCell([k \in 1..Len(cell) |->
                                IF cell[k].tag = "p"
                                THEN Para(BasicReplaceAll(cell[k].runs, replacements))
                                ELSE cell[k]],
                            replacements, times - 1)

\* what IntelligentFormatter._format_docx saves: the replacements made in the
\* paragraphs of the body and in those of the cells of its tables; the section
\* loop after them changes nothing
BasicFormattedDocx(doc, d) ==
    [doc EXCEPT !.body =
        [k \in 1..Len(doc.body) |->
            IF doc.body[k].tag = "p"
            THEN Para(BasicReplaceAll(doc.body[k].runs, BasicReplacements(d)))
            ELSE Tbl([r \in 1..Len(doc.body[k].rows) |->
                        [c \in 1..Len(doc.body[k].rows[r]) |->
                            BasicReplaceInCell(doc.body[k].rows[r][c], BasicReplacements(d),
                                               Span(doc.body[k], r, c))]])]]

\* IntelligentFormatter._format_docx
FormatDocxBasic(self, dsk, save_ok) ==
    IF ~OpensAsDocx(dsk, self.template_path.s)
    THEN Raised("PackageNotFoundError", self, dsk, {})
    ELSE IF ~save_ok THEN Raised("OSError", self, dsk, {self.template_path.s})
    ELSE Returned(TRUE, "basic", self,
                  WriteFile(dsk, Replace(self.output_path, ".pdf", ".docx"),
                            DocxFile(BasicFormattedDocx(dsk[self.template_path.s].doc,
                                                        self.resume_data))),
                  {self.template_path.s})

\* the contact line of the overlay: email, phone and linkedin[:30], those that
\* are not empty
ContactParts(d) ==
    (IF d.email # "" THEN <<d.email>> ELSE <<>>)
        \o (IF d.phone # "" THEN <<d.phone>> ELSE <<>>)
        \o (IF d.linkedin # "" THEN <<SubSeq(d.linkedin, 1, Min(30, Len(d.linkedin)))>> ELSE <<>>)

\* _format_pdf keeping the upper-cased name in the record
FormatPdfStoringName(self, dsk, save_ok) ==
    IF ~OpensAsPdf(dsk, self.template_path.s) THEN Raised("PdfReadError", self, dsk, {})
    ELSE IF ~save_ok THEN Raised("OSError", self, dsk, {self.template_path.s})
    ELSE Returned(TRUE, "pdf",
                  [self EXCEPT !.resume_data.name = Upper(@)],
                  WriteFile(dsk, self.output_path,
                            PdfFile(<<Upper(self.resume_data.name)>>
                                    \o (IF ContactParts(self.resume_data) # <<>>
                                        THEN <<Join(" | ", ContactParts(self.resume_data))>>
                                        ELSE <<>>))),
                  {self.template_path.s})

\* IntelligentFormatter._format_pdf, for a profile with a page entry and without
\* placeholders and a record without sections: the strings drawn on the overlay.
\* PdfReader raises for anything but a PDF; open(self.output_path, 'wb') raises
\* when the output cannot be written
FormatPdf(self, dsk, save_ok) ==
    IF ~OpensAsPdf(dsk, self.template_path.s) THEN Raised("PdfReadError", self, dsk, {})
    ELSE IF ~save_ok THEN Raised("OSError", self, dsk, {self.template_path.s})
    ELSE Returned(TRUE, "pdf", self,
                  WriteFile(dsk, self.output_path,
                            PdfFile(<<Upper(self.resume_data.name)>>
                                    \o (IF ContactParts(self.resume_data) # <<>>
                                        THEN <<Join(" | ", ContactParts(self.resume_data))>>
                                        ELSE <<>>))),
                  {self.template_path.s})

\* the stage IntelligentFormatter.format() runs inside its try
FormatStage(self, dsk, word_formatter, win32, office_ok, save_ok) ==
    IF self.template_type.s = "pdf" THEN FormatPdf(self, dsk, save_ok)
    ELSE IF self.template_type.s \in {"docx", "doc"}
         THEN IF word_formatter
              THEN FormatWordDocumentCall(self.resume_data, self.template_analysis,
                                          self.output_path, dsk, win32, office_ok, save_ok)
              ELSE FormatDocxBasic(self, dsk, save_ok)
    ELSE Returned(FALSE, "none", self, dsk, {})

\* format_resume_intelligent without the except clause of format()
IntelligentFormatterFormatUncaught(d, ta, out, dsk, word_formatter, win32, office_ok, save_ok) ==
    With(Self(d, ta, out), LAMBDA self :
        IF Falsy(self.template_path) THEN Raised("ValueError", self, dsk, {})
        ELSE IF Falsy(self.template_type) THEN Raised("ValueError", self, dsk, {})
        ELSE FormatStage(self, dsk, word_formatter, win32, office_ok, save_ok))

\* format_resume_intelligent: IntelligentFormatter.__init__ raises ValueError
\* for a missing path or type; format() returns what its stage returns, and
\* False when the stage raises
IntelligentFormatterFormat(d, ta, out, dsk, word_formatter, win32, office_ok, save_ok) ==
    With(Self(d, ta, out), LAMBDA self :
        IF Falsy(self.template_path) THEN Raised("ValueError", self, dsk, {})
        ELSE IF Falsy(self.template_type) THEN Raised("ValueError", self, dsk, {})
        ELSE Caught(FormatStage(self, dsk, word_formatter, win32, office_ok, save_ok)))

-----------------------------------------------------------------------------
(* Template reconciliation: the specification of the two entry points *)

\* candidate records: identity fields as the parser leaves them (stripped str,
\* "" when not found), no structured experience, education, skills or sections
Identity(name, email, phone, address, linkedin, dob) ==
    [name |-> name, email |-> email, phone |-> phone, address |-> address,
     linkedin |-> linkedin, dob |-> dob,
     experience |-> <<>>, education |-> <<>>, skills |-> <<>>, sections |-> <<>>]

Records ==
    { Identity("", "", "", "", "", ""),
      Identity("", "a@b.com", "", "", "", ""),
      Identity("Jane Doe", "", "555-123-4567", "", "", ""),
      Identity("Jane Doe", "jane@mail.com", "555-123-4567", "12 Main Street",
               "linkedin.com/in/janedoe", "01/02/1990") }

\* template documents
FlowDoc(body, header, footer) == [body |-> body, header |-> header, footer |-> footer]

Templates ==
    { FlowDoc(<<Para(<<"Contact: [EMAIL] or [PHONE]">>)>>, <<>>, <<>>),
      FlowDoc(<<Para(<<"<Candidate Name>">>), Para(<<"">>),
                Para(<<"[NAME] | [ADDRESS] | [DOB]">>)>>,
              << <<"<Name>", " - [LinkedIn]">> >>, <<>>),
      FlowDoc(<<Para(<<"Name: <Na", "me>">>), Para(<<"Mail [em", "ail] Tel [phone]">>)>>,
              <<>>, <<>>),
      FlowDoc(<<Para(<<"Your Name, your.email@example.com, (123) 456-7890">>),
                Para(<<"<Candidate's full name>">>)>>,
              <<>>, << <<"[Date of Birth] <DOB>">> >>),
      FlowDoc(<<Para(<<"EXPERIENCE">>), Para(<<"<List employment history>">>),
                Para(<<"See linkedin.com/in/username">>)>>, <<>>, <<>>) }

DocxPath == "templates/t.docx"
DocPath == "templates/t.doc"
PdfPath == "templates/t.pdf"

TemplatePaths == {Absent, PyNone, PyStr(""), PyStr(DocxPath), PyStr(DocPath), PyStr(PdfPath)}
TemplateTypes == {Absent, PyNone, PyStr(""), PyStr("docx"), PyStr("pdf"), PyStr("txt")}
OutputPaths == {"out/jane.docx", "out/jane.pdf"}

\* the template as a .docx package, as a legacy .doc file, and a PDF template
DiskWith(doc) ==
    WriteFile(WriteFile(WriteFile(<<>>, DocxPath, DocxFile(doc)), DocPath, DocFile(doc)),
              PdfPath, PdfFile(<<>>))

FormatInit ==
    /\ resume_data \in Records
    /\ \E path \in TemplatePaths, type \in TemplateTypes :
            template_analysis = [template_path |-> path, template_type |-> type]
    /\ output_path \in OutputPaths
    /\ has_word_formatter \in BOOLEAN
    /\ has_win32 \in BOOLEAN
    /\ \E doc \in Templates : disk = DiskWith(doc)
    /\ opened = {}
    /\ formatted = [kind |-> "idle"]
    /\ text = "" /\ now_year = "2026" /\ yrs = <<>> /\ durs = <<>>
    /\ HeaderIdle
    /\ ParseIdle
    /\ ProbesIdle

\* what an entry point leaves behind: its result, the record and the profile
\* the caller passed (the formatter holds references to them), and the
\* formatter's template_path; office_ok and save_ok are kept as the
\* environment the call met
Finish(entry, result, office_ok, save_ok) ==
    /\ formatted' = [kind |-> result.kind, entry |-> entry, value |-> result.value,
                     error |-> result.error, via |-> result.via,
                     template_path |-> result.self.template_path,
                     office_ok |-> office_ok, save_ok |-> save_ok]
    /\ resume_data' = result.self.resume_data
    /\ template_analysis' = result.self.template_analysis
    /\ disk' = result.disk
    /\ opened' = result.opened
    /\ UNCHANGED <<output_path, has_word_formatter, has_win32, cleanVars, headerVars,
                   parseVars, tableVars, lookupVars, fontVars, analyzeVars>>

\* format_resume_intelligent(resume_data, template_analysis, output_path)
FormatResumeIntelligent ==
    /\ formatted.kind = "idle"
    /\ \E office_ok \in BOOLEAN, save_ok \in BOOLEAN :
        Finish("format_resume_intelligent",
               IntelligentFormatterFormat(resume_data, template_analysis, output_path, disk,
                                          has_word_formatter, has_win32, office_ok, save_ok),
               office_ok, save_ok)

\* format_word_document(resume_data, template_analysis, output_path)
FormatWordDocument ==
    /\ formatted.kind = "idle"
    /\ \E office_ok \in BOOLEAN, save_ok \in BOOLEAN :
        Finish("format_word_document",
               FormatWordDocumentCall(resume_data, template_analysis, output_path, disk,
                                      has_win32, office_ok, save_ok),
               office_ok, save_ok)

FormatNext == FormatResumeIntelligent \/ FormatWordDocument

FormatSpec == FormatInit /\ [][FormatNext]_vars

-----------------------------------------------------------------------------
(* Template reconciliation: claims *)

\* a flow-document formatter ran to its end: WordFormatter._format_docx_file
\* ("word") or IntelligentFormatter._format_docx ("basic")
FlowFormatted == formatted.kind = "returned" /\ formatted.via \in {"word", "basic"}

\* the template the formatter was given, and the document it saved
TemplateDoc == disk[template_analysis.template_path.s].doc
OutputDoc == disk[Replace(output_path, ".pdf", ".docx")].doc

\* a file was written next to the three files the disk started with
OutputWritten == DOMAIN disk \ {DocxPath, DocPath, PdfPath} # {}

\* C6: literal token replacement preserves unrelated text, on every
\* flow-document path: for the template paragraph "Contact: [EMAIL] or [PHONE]"
\* the saved paragraph is that text with [EMAIL] replaced by the email when the
\* record has one and [PHONE] by the phone when it has one, and nothing else
\* changed; with email "a@b.com" and phone "" it is "Contact: a@b.com or [PHONE]".
C6_OnlyNonEmptyFieldsSubstituted ==
    (FlowFormatted /\ TemplateDoc.body = <<Para(<<"Contact: [EMAIL] or [PHONE]">>)>>) =>
        ParagraphText(OutputDoc.body[1].runs) =
            "Contact: "
                \o (IF resume_data.email # "" THEN resume_data.email ELSE "[EMAIL]")
                \o " or "
                \o (IF resume_data.phone # "" THEN resume_data.phone ELSE "[PHONE]")

\* the literal placeholder tokens of a template
LiteralTokens ==
    UNION { {keys[k] : k \in 1..Len(keys)} :
                keys \in {NameTokenKeys, EmailTokenKeys, PhoneTokenKeys, AddressTokenKeys,
                          LinkedInTokenKeys, DobTokenKeys} }

AllIdentityEmpty(d) ==
    d.name = "" /\ d.email = "" /\ d.phone = "" /\ d.address = "" /\ d.linkedin = ""
        /\ d.dob = ""

\* every literal token of each paragraph of before is still in the paragraph of
\* after at the same place in the list
TokensKept(before, after) ==
    /\ Len(after) = Len(before)
    /\ \A k \in 1..Len(before) : \A token \in LiteralTokens :
            Contains(ParagraphText(before[k]), token) =>
                Contains(ParagraphText(after[k]), token)

\* C7: for a record whose identity fields are all empty, flow-document
\* reconciliation completes without raising and replaces no literal placeholder
\* token: every token of the template is still present verbatim in the output.
C7_EmptyIdentityKeepsTokens ==
    (formatted.kind # "idle" /\ AllIdentityEmpty(resume_data)
        /\ formatted.via \in {"word", "basic"}) =>
        /\ formatted.kind = "returned"
        /\ formatted.value = TRUE
        /\ TokensKept(DirectParagraphs(TemplateDoc.body), DirectParagraphs(OutputDoc.body))
        /\ TokensKept(TemplateDoc.header, OutputDoc.header)
        /\ TokensKept(TemplateDoc.footer, OutputDoc.footer)

\* C8: with no template_path or no template_type in the profile (absent, None or
\* empty), either entry point fails, by an exception or by returning False,
\* before the template is opened and before any output file is written.
C8_HardPrecondition ==
    (formatted.kind # "idle"
        /\ (Falsy(Get(template_analysis.template_path))
            \/ Falsy(Get(template_analysis.template_type)))) =>
        /\ formatted.kind = "raised" \/ formatted.value = FALSE
        /\ opened = {}
        /\ ~OutputWritten

\* the entry point that ran built an IntelligentFormatter: __init__ found a
\* template path and a template type
Constructed ==
    /\ formatted.kind # "idle"
    /\ formatted.entry = "format_resume_intelligent"
    /\ ~Falsy(Get(template_analysis.template_path))
    /\ ~Falsy(Get(template_analysis.template_type))

\* a file at the output path, or at the .docx path a .pdf output path stands for
OutputFileExists ==
    output_path \in DOMAIN disk \/ Replace(output_path, ".pdf", ".docx") \in DOMAIN disk

UnsupportedType == template_analysis.template_type.s \notin {"pdf", "docx", "doc"}

\* the file at the template path is not a template of the profile's type
UnreadableTemplate ==
    \/ template_analysis.template_path.s \notin DOMAIN disk
    \/ IF template_analysis.template_type.s = "pdf"
       THEN disk[template_analysis.template_path.s].fmt # "pdf"
       ELSE disk[template_analysis.template_path.s].fmt \notin {"docx", "doc"}

\* a .doc template, and no Word automation to convert it
DocWithoutConversion ==
    /\ EndsWith(Lower(template_analysis.template_path.s), ".doc")
    /\ ~(has_win32 /\ formatted.office_ok)

\* C12: once an IntelligentFormatter has been constructed, format() returns a
\* boolean and never raises; for an unsupported template type, an unreadable or
\* malformed template file, or a .doc template with no conversion facility it
\* returns False and writes no output file.
C12_FormatReturnsBoolean ==
    Constructed =>
        /\ formatted.kind = "returned"
        /\ formatted.value \in BOOLEAN
        /\ (UnsupportedType \/ UnreadableTemplate \/ DocWithoutConversion) =>
                (formatted.value = FALSE /\ ~OutputFileExists)

\* the PDF formatter was run on a template that is no PDF: PdfReader raised,
\* format() returned False
C12_Witness ==
    /\ Constructed
    /\ template_analysis.template_type.s = "pdf"
    /\ UnreadableTemplate
    /\ formatted.kind = "returned"
    /\ formatted.value = FALSE
    /\ ~OutputFileExists

Converted ==
    /\ formatted.kind # "idle"
    /\ formatted.entry = "format_word_document"
        \/ (Constructed /\ template_analysis.template_type.s \in {"docx", "doc"}
                /\ has_word_formatter)
    /\ Get(template_analysis.template_path).py = "str"
    /\ EndsWith(Lower(template_analysis.template_path.s), ".doc")
    /\ has_win32 /\ formatted.office_ok
    /\ template_analysis.template_path.s \in DOMAIN disk
    /\ disk[template_analysis.template_path.s].fmt \in {"doc", "docx"}

\* C17: when a .doc template is converted to an intermediate .docx copy, that
\* copy is removed and the formatter's template_path is set back to the
\* original path, both when formatting the copy succeeds and when it raises.
C17_TempCopyRemoved ==
    Converted =>
        /\ TempDocx(template_analysis.template_path.s) \notin DOMAIN disk
        /\ formatted.template_path = template_analysis.template_path

-----------------------------------------------------------------------------
(* _is_skills_table applied to bounded tables *)

\* the most data rows under the header row of a modelled table
MaxDataRows == 2

HeaderCells ==
    {"Skill", "Notes", "Years", " Last Used ", "TECHNOLOGY", "Core Competency",
     "Experience", "Skills / Years", "", "Name", "Most recent"}

\* header rows of one or two cells
HeaderRows == {<<a>> : a \in HeaderCells} \cup {<<a, b>> : a \in HeaderCells, b \in HeaderCells}

\* a header row and 0..MaxDataRows data rows of empty cells; and the table
\* without any row
Tables ==
    {TextTable(<<>>)} \cup
    {TextTable(<<header>> \o [r \in 1..n |-> [c \in 1..Len(header) |-> ""]]) :
        header \in HeaderRows, n \in 0..MaxDataRows}

TableInit ==
    /\ table \in Tables
    /\ is_skills_table = <<>>
    /\ skills_list = <<>> /\ filled = <<>>
    /\ text = "" /\ now_year = "2026" /\ yrs = <<>> /\ durs = <<>>
    /\ HeaderIdle
    /\ ParseIdle
    /\ FormatIdle
    /\ LookupIdle /\ FontIdle /\ AnalyzeIdle

\* formatter._is_skills_table(table)
CallIsSkillsTable ==
    /\ is_skills_table = <<>>
    /\ is_skills_table' = <<IsSkillsTable(table)>>
    /\ UNCHANGED <<table, skills_list, filled, cleanVars, headerVars, parseVars, formatVars, lookupVars, fontVars,
                   analyzeVars>>

TableNext == CallIsSkillsTable

TableSpec == TableInit /\ [][TableNext]_vars

-----------------------------------------------------------------------------
(* Claims about _is_skills_table (under TableSpec) *)

\* the texts of the cells of the first row, as the template shows them
FirstRow(t) == [c \in 1..Len(t.rows[1]) |-> CellText(t.rows[1][c])]

\* some cell of the row holds, in any case, a word of the family
HasCellOf(row, family) ==
    \E c \in 1..Len(row) : \E k \in 1..Len(family) : Contains(Lower(row[c]), family[k])

\* the first row has a skill cell and a years or last-used cell
SkillAndQuantityHeader(t) ==
    /\ Len(t.rows) >= 1
    /\ HasCellOf(FirstRow(t), SkillColumnKeywords)
    /\ \/ HasCellOf(FirstRow(t), YearsColumnKeywords)
       \/ HasCellOf(FirstRow(t), LastUsedColumnKeywords)

\* C11 as stated: a table is treated as a skills table exactly when its first
\* row has a cell with a skill-family keyword and a cell with a years-family or
\* last-used-family keyword; the header ["Skill", "Notes"] makes no skills
\* table and the header ["Skill", "Years"] makes one.
C11_SkillAndQuantityColumn ==
    is_skills_table # <<>> =>
        /\ is_skills_table[1] <=> SkillAndQuantityHeader(table)
        /\ (Len(table.rows) >= 1 /\ FirstRow(table) = <<"Skill", "Notes">>) => ~is_skills_table[1]
        /\ (Len(table.rows) >= 1 /\ FirstRow(table) = <<"Skill", "Years">>) => is_skills_table[1]

\* C11, amended: a table with at least two rows (the header and a data row) is
\* treated as a skills table exactly when its first row has a cell with a
\* skill-family keyword and a cell with a years-family or last-used-family
\* keyword; a table with fewer rows is never one.
C11_SkillAndQuantityColumnWithDataRow ==
    is_skills_table # <<>> =>
        /\ Len(table.rows) >= 2 => (is_skills_table[1] <=> SkillAndQuantityHeader(table))
        /\ Len(table.rows) < 2 => ~is_skills_table[1]
        /\ (Len(table.rows) >= 2 /\ FirstRow(table) = <<"Skill", "Notes">>) => ~is_skills_table[1]
        /\ (Len(table.rows) >= 2 /\ FirstRow(table) = <<"Skill", "Years">>) => is_skills_table[1]

\* the table with header ["Skill", "Years"] and a data row was detected, and
\* the one with header ["Skill", "Notes"] was not
C11_Witness ==
    /\ is_skills_table # <<>>
    /\ Len(table.rows) >= 2
    /\ \/ FirstRow(table) = <<"Skill", "Years">> /\ is_skills_table[1]
       \/ FirstRow(table) = <<"Skill", "Notes">> /\ ~is_skills_table[1]

-----------------------------------------------------------------------------
(* _find_section and _extract_name applied to bounded resume lines *)

\* the most lines of a modelled resume
MaxLines == 3

\* resume lines as parse() leaves them: stripped and not empty
LinePool ==
    {"Jane A. Doe", "jane.doe@mail.com", "Experience", "Python experience", "Education"}

LineLists == UNION {[1..n -> LinePool] : n \in 0..MaxLines}

\* resume files: names with 2, 0 and 5 tokens left after the blacklist
NameFiles ==
    {"uploads/jane_doe_resume.pdf", "uploads/resume_final_copy.pdf", "uploads/a-b_c.d e.docx"}

\* the synonym lists handed to _find_section
KeywordLists == {ExperienceKeywords, EducationKeywords}

LookupInit ==
    /\ lines \in LineLists
    /\ file_path \in NameFiles
    /\ file_type = "pdf"
    /\ source = [readable |-> FALSE, pages |-> <<>>]
    /\ raw_text = ""
    /\ parsed = [kind |-> "idle"]
    /\ scan = [loop |-> "idle"]
    /\ find_keywords = <<>> /\ section_lines = <<>> /\ candidate_name = <<>>
    /\ text = "" /\ now_year = "2026" /\ yrs = <<>> /\ durs = <<>>
    /\ HeaderIdle
    /\ FormatIdle
    /\ TableIdle /\ FontIdle /\ AnalyzeIdle

\* parser._find_section(keywords)
CallFindSection ==
    /\ section_lines = <<>>
    /\ \E kws \in KeywordLists :
        /\ find_keywords' = kws
        /\ section_lines' = <<FindSection(lines, kws)>>
    /\ UNCHANGED <<candidate_name, cleanVars, headerVars, parseVars, formatVars, tableVars,
                   fontVars, analyzeVars>>

\* parser._extract_name()
CallExtractName ==
    /\ candidate_name = <<>>
    /\ candidate_name' = <<ExtractName(lines, file_path)>>
    /\ UNCHANGED <<find_keywords, section_lines, cleanVars, headerVars, parseVars, formatVars,
                   tableVars, fontVars, analyzeVars>>

LookupNext == CallFindSection \/ CallExtractName

LookupSpec == LookupInit /\ [][LookupNext]_vars

-----------------------------------------------------------------------------
(* Claims about _extract_name and _find_section (under LookupSpec) *)

\* the line holds an email address or a phone number
IsContactLine(l) == Matches(ReEmailName, l, FALSE) \/ AnyMatches(PhonePatternsName, l, FALSE)

\* the contact-line stage finds a name: one of the three lines above the
\* earliest contact line of the first 30 lines, or that line, holds no contact
\* information and reads as a name
ContactStageFinds(ls) ==
    \E p \in 1..Min(30, Len(ls)) :
        /\ IsContactLine(ls[p])
        /\ \A q \in 1..(p - 1) : ~IsContactLine(ls[q])
        /\ \E i \in Max(1, p - 3)..p : ~HasContactInfo(Strip(ls[i])) /\ NameLike(Strip(ls[i]))

\* the first-10-lines stage finds a name
FirstTenStageFinds(ls) ==
    \E i \in 1..Min(10, Len(ls)) :
        /\ ~HasContactInfo(ls[i])
        /\ Len(ls[i]) >= 3 /\ Len(ls[i]) <= 60
        /\ Matches(ReName, Strip(ls[i]), FALSE)

\* the filename stage finds a name: 1 to 4 tokens are left of the file name
FileStageFinds(path) ==
    Len(NameTokens(ReSplit(ReNonWord, Stem(Basename(path)), FALSE))) \in 1..4

\* C13: _extract_name returns a non-empty string for every input, and exactly
\* "Unknown Candidate" when the contact-line stage, the first-10-lines stage
\* and the filename stage all find nothing.
C13_NameNeverEmpty ==
    candidate_name # <<>> =>
        /\ candidate_name[1] \in STRING
        /\ candidate_name[1] # ""
        /\ (~ContactStageFinds(lines) /\ ~FirstTenStageFinds(lines) /\ ~FileStageFinds(file_path))
                => candidate_name[1] = "Unknown Candidate"

\* the sentinel was returned for lines without a name and a file name without
\* a token outside the blacklist
C13_Witness ==
    /\ candidate_name = <<"Unknown Candidate">>
    /\ Len(lines) > 0
    /\ file_path = "uploads/resume_final_copy.pdf"

\* the index of the first line containing a synonym, 0 when none
FirstSynonymLine(ls, kws) == FirstIndex(ls, Len(ls), LAMBDA l : ContainsAny(Lower(l), kws))

\* the lines after line first up to, and without, the next section header
RunAfter(ls, first) ==
    LET stops == {j \in (first + 1)..Len(ls) : IsSectionHeader(ls[j])}
    IN  SubSeq(ls, first + 1,
               IF stops = {} THEN Len(ls) ELSE (CHOOSE j \in stops : \A k \in stops : j <= k) - 1)

\* C18: _find_section returns exactly the contiguous run of lines that follow
\* the first line containing any synonym, up to but excluding the first later
\* line classified as a section header: no line of that run is skipped and no
\* line after that header is included (and nothing when no line holds a synonym).
C18_SectionIsContiguousRun ==
    section_lines # <<>> =>
        section_lines[1] =
            IF FirstSynonymLine(lines, find_keywords) = 0 THEN <<>>
            ELSE RunAfter(lines, FirstSynonymLine(lines, find_keywords))

-----------------------------------------------------------------------------
(* Font normaliser *)

\* FONT_MAP
FontMap ==
    [f \in {"calibri", "calibri-bold", "calibri-italic", "calibri-bolditalic", "arial",
            "arial-bold", "times", "times-bold", "times-italic", "courier"} |->
        CASE f \in {"calibri", "arial"} -> "Helvetica"
          [] f \in {"calibri-bold", "arial-bold"} -> "Helvetica-Bold"
          [] f = "calibri-italic" -> "Helvetica-Oblique"
          [] f = "calibri-bolditalic" -> "Helvetica-BoldOblique"
          [] f = "times" -> "Times-Roman"
          [] f = "times-bold" -> "Times-Bold"
          [] f = "times-italic" -> "Times-Italic"
          [] f = "courier" -> "Courier"]

\* r'^[A-Z]+\+'
ReSubsetTag == RCat(<<RBol, RPlus(RSet(UpperSet)), RLit("+")>>)

\* what normalize_font returns for the cleaned name
FontOf(font_clean) ==
    IF font_clean \in DOMAIN FontMap THEN FontMap[font_clean]
    ELSE IF Contains(font_clean, "calibri") \/ Contains(font_clean, "arial")
         THEN IF Contains(font_clean, "bold") /\ Contains(font_clean, "italic")
              THEN "Helvetica-BoldOblique"
              ELSE IF Contains(font_clean, "bold") THEN "Helvetica-Bold"
              ELSE IF Contains(font_clean, "italic") THEN "Helvetica-Oblique"
              ELSE "Helvetica"
    ELSE IF Contains(font_clean, "times")
         THEN IF Contains(font_clean, "bold") /\ Contains(font_clean, "italic")
              THEN "Times-BoldItalic"
              ELSE IF Contains(font_clean, "bold") THEN "Times-Bold"
              ELSE IF Contains(font_clean, "italic") THEN "Times-Italic"
              ELSE "Times-Roman"
    ELSE IF Contains(font_clean, "courier")
         THEN IF Contains(font_clean, "bold") THEN "Courier-Bold" ELSE "Courier"
    ELSE "Helvetica"

\* normalize_font without the removal of the subset tag
NormalizeFontKeepTag(raw_name) ==
    IF Falsy(raw_name) THEN "Helvetica" ELSE FontOf(Lower(raw_name.s))

\* normalize_font(font_name), for None or a str
NormalizeFont(raw_name) ==
    IF Falsy(raw_name) THEN "Helvetica"
    ELSE FontOf(Lower(Sub(ReSubsetTag, "", raw_name.s, FALSE)))

-----------------------------------------------------------------------------
(* normalize_font applied to bounded font names *)

SubsetTags == {"", "ABCDEF+", "BOLD+", "TIMES+"}

BaseFonts ==
    {"", "Calibri", "Calibri-Bold", "calibri-italic", "Calibri-BoldItalic", "Arial",
     "Arial-BoldMT", "ArialItalic", "TimesNewRoman", "Times-Bold", "times-italic",
     "Times New Roman Bold Italic", "Courier", "CourierNew-Bold", "Courier-Oblique",
     "Courier-Italic", "CourierNew-BoldItalic", "Verdana", "Symbol-Bold", "Cambria Italic"}

\* None, and every base name with zero, one or two tags in front
FontNames ==
    {PyNone} \cup {PyStr(outer \o inner \o base) :
                      outer \in SubsetTags, inner \in {"", "BOLD+"}, base \in BaseFonts}

FontInit ==
    /\ font_name \in FontNames
    /\ font_id = <<>>
    /\ text = "" /\ now_year = "2026" /\ yrs = <<>> /\ durs = <<>>
    /\ HeaderIdle
    /\ ParseIdle
    /\ FormatIdle
    /\ TableIdle /\ LookupIdle /\ AnalyzeIdle

\* normalize_font(font_name)
CallNormalizeFont ==
    /\ font_id = <<>>
    /\ font_id' = <<[kind |-> "returned", value |-> NormalizeFont(font_name)]>>
    /\ UNCHANGED <<font_name, cleanVars, headerVars, parseVars, formatVars, tableVars,
                   lookupVars, analyzeVars>>

FontNext == CallNormalizeFont

FontSpec == FontInit /\ [][FontNext]_vars

-----------------------------------------------------------------------------
(* Claims about normalize_font (under FontSpec) *)

\* {Helvetica, Times, Courier} x {plain, bold, italic/oblique, bold+italic}
FontIds ==
    {"Helvetica", "Helvetica-Bold", "Helvetica-Oblique", "Helvetica-BoldOblique",
     "Times-Roman", "Times-Bold", "Times-Italic", "Times-BoldItalic",
     "Courier", "Courier-Bold", "Courier-Oblique", "Courier-BoldOblique"}

\* the length of the leading subset tag of s (uppercase letters, then '+'),
\* 0 when s has none
TagLength(s) ==
    LET plus == {i \in 2..Len(s) : Ch(s, i) = "+" /\ \A j \in 1..(i - 1) : Ch(s, j) \in UpperSet}
    IN  IF plus = {} THEN 0 ELSE CHOOSE i \in plus : TRUE

\* s without its leading subset tag
Untagged(s) == SubSeq(s, TagLength(s) + 1, Len(s))

\* no family name occurs in the name behind the tag
MatchesNothing(s) ==
    \A family \in {"calibri", "arial", "times", "courier"} : ~Contains(Lower(Untagged(s)), family)

\* the closed output set, the default, and totality
ClosedAndTotal ==
    /\ font_id[1].kind = "returned"
    /\ font_id[1].value \in FontIds
    /\ Falsy(font_name) => font_id[1].value = "Helvetica"
    /\ (~Falsy(font_name) /\ MatchesNothing(font_name.s)) => font_id[1].value = "Helvetica"

\* C14 as stated: normalize_font returns one of the 12 ids for every input,
\* None and the empty string included, and never raises; an input that matches
\* nothing maps to plain Helvetica; and a leading subset tag does not change
\* the result: a tagged name gets the id of the name behind the tag.
C14_ClosedSetAndTagIgnored ==
    font_id # <<>> =>
        /\ ClosedAndTotal
        /\ (~Falsy(font_name) /\ TagLength(font_name.s) > 0) =>
                font_id[1].value = NormalizeFont(PyStr(Untagged(font_name.s)))

\* C14, amended: as stated, but a leading subset tag is known not to change the
\* result only when the name behind it does not itself start with uppercase
\* letters followed by '+' (one tag is removed, not every tag).
C14_ClosedSetAndOneTagIgnored ==
    font_id # <<>> =>
        /\ ClosedAndTotal
        /\ (~Falsy(font_name) /\ TagLength(font_name.s) > 0
                /\ TagLength(Untagged(font_name.s)) = 0) =>
                font_id[1].value = NormalizeFont(PyStr(Untagged(font_name.s)))

\* a name whose tag holds a style word was normalised to the id of the name
\* behind the tag
C14_Witness ==
    /\ font_id # <<>>
    /\ font_name = PyStr("BOLD+Arial")
    /\ font_id[1].value = "Helvetica"

-----------------------------------------------------------------------------
(* Template structure analyser *)

\* the three characters a mis-decoded bullet shows as, written as one
MisdecodedBullet == "%"

\* a PDF on disk, as pdfplumber reads it: pages with their size and characters
PdfTemplate(pages) == [fmt |-> "pdf", pages |-> pages, overlay |-> <<>>]

\* get_default_format(), then format_data['template_path'] = file_path and
\* format_data['template_type'] = template_type
DefaultFormat(path, type) ==
    [template_path |-> path,
     template_type |-> type,
     page |-> [width |-> 612, height |-> 792,
               margins |-> [top |-> 54, bottom |-> 54, left |-> 54, right |-> 54]],
     name |-> [font |-> "Helvetica-Bold", size |-> 14, alignment |-> "center"],
     sections |-> <<>>,
     body |-> [font |-> "Helvetica", size |-> 10, line_spacing |-> 14]]

\* sorted(chars, key=lambda c: (c['top'], c['x0'])): a stable sort
SortedChars(chars) ==
    LET Before(i, j) == \/ chars[i].top < chars[j].top
                        \/ chars[i].top = chars[j].top /\ chars[i].x0 < chars[j].x0
                        \/ chars[i].top = chars[j].top /\ chars[i].x0 = chars[j].x0 /\ i < j
        Rank(i) == Cardinality({j \in 1..Len(chars) : Before(j, i)}) + 1
    IN  [r \in 1..Len(chars) |-> chars[CHOOSE i \in 1..Len(chars) : Rank(i) = r]]

\* create_line(chars)
CreateLine(chars) ==
    [text |-> Strip(Join("", [k \in 1..Len(chars) |-> chars[k].text])),
     x |-> chars[1].x0, y |-> chars[1].top,
     font |-> chars[1].fontname, font_size |-> chars[1].size]

\* the loop of group_chars_into_lines from the i-th sorted char on: start is
\* the index of the first char of the current line, whose top is current_y
RECURSIVE GroupFrom(_, _, _)
GroupFrom(sorted, i, start) ==
    IF i > Len(sorted) THEN <<CreateLine(SubSeq(sorted, start, Len(sorted)))>>
    ELSE IF sorted[i].top - sorted[start].top <= 2 /\ sorted[start].top - sorted[i].top <= 2
         THEN GroupFrom(sorted, i + 1, start)
         ELSE With(GroupFrom(sorted, i + 1, i), LAMBDA rest :
                <<CreateLine(SubSeq(sorted, start, i - 1))>> \o rest)

\* group_chars_into_lines(chars)
GroupCharsIntoLines(chars) ==
    IF Len(chars) = 0 THEN <<>>
    ELSE With(SortedChars(chars), LAMBDA sorted : GroupFrom(sorted, 2, 1))

PlaceholderPhrases ==
    <<"your name", "your degree", "phone number", "email address", "insert", "replace",
      "template", "example">>

\* is_placeholder(text)
IsPlaceholder(txt) == ContainsAny(Lower(txt), PlaceholderPhrases) \/ Len(txt) > 120

\* [l for l in lines if Keep(l)]
SelectLines(ls, Keep(_)) ==
    With({k \in 1..Len(ls) : Keep(ls[k])}, LAMBDA kept :
        [r \in 1..Cardinality(kept) |->
            ls[CHOOSE k \in kept : Cardinality({j \in kept : j < k}) = r - 1]])

\* min and max of the values of a non-empty sequence of numbers
MinOf(ns) == CHOOSE m \in {ns[k] : k \in 1..Len(ns)} : \A k \in 1..Len(ns) : m <= ns[k]
MaxOf(ns) == CHOOSE m \in {ns[k] : k \in 1..Len(ns)} : \A k \in 1..Len(ns) : m >= ns[k]

\* detect_margins(lines, width, height)
DetectMargins(ls, width, height) ==
    IF Len(ls) = 0 THEN [top |-> 54, bottom |-> 54, left |-> 54, right |-> 54]
    ELSE LET xs == [k \in 1..Len(ls) |-> ls[k].x]
             ys == [k \in 1..Len(ls) |-> ls[k].y]
         IN  [top |-> MinOf(ys), bottom |-> height - MaxOf(ys),
              left |-> MinOf(xs), right |-> width - MaxOf(xs)]

\* detect_name_style(lines, page_width); abs(x - page_width/2) < 50, doubled
DetectNameStyle(ls, page_width) ==
    IF Len(ls) = 0 THEN [font |-> "Helvetica-Bold", size |-> 14, alignment |-> "center"]
    ELSE [font |-> NormalizeFont(PyStr(ls[1].font)),
          size |-> ls[1].font_size,
          alignment |-> IF 2 * ls[1].x - page_width < 100 /\ page_width - 2 * ls[1].x < 100
                        THEN "center" ELSE "left"]

\* the loop of detect_sections from line i on; seen holds the lower-cased
\* headings so far
RECURSIVE SectionsFrom(_, _, _)
SectionsFrom(ls, i, seen) ==
    IF i > Len(ls) THEN <<>>
    ELSE With(Strip(ls[i].text), LAMBDA txt :
            IF Len(txt) > 60 \/ Len(txt) < 3 THEN SectionsFrom(ls, i + 1, seen)
            ELSE IF Lower(txt) \in seen THEN SectionsFrom(ls, i + 1, seen)
            ELSE IF ls[i].font_size >= 10 /\ ~StartsWith(txt, MisdecodedBullet)
                 THEN <<[heading |-> txt, font |-> NormalizeFont(PyStr(ls[i].font)),
                         size |-> ls[i].font_size, has_underline |-> TRUE]>>
                      \o SectionsFrom(ls, i + 1, seen \cup {Lower(txt)})
            ELSE SectionsFrom(ls, i + 1, seen))

\* detect_sections(lines)
DetectSections(ls) == Take(SectionsFrom(ls, 1, {}), 10)

\* detect_body_style(lines), for lines whose most frequent size below 12 is
\* unique: max(set(sizes), key=sizes.count)
DetectBodyStyle(ls) ==
    With(SelectLines(ls, LAMBDA l : l.font_size < 12), LAMBDA body_lines :
        IF Len(body_lines) = 0 THEN [font |-> "Helvetica", size |-> 10, line_spacing |-> 14]
        ELSE LET Count(z) == Cardinality({k \in 1..Len(body_lines) : body_lines[k].font_size = z})
                 sizes == {body_lines[k].font_size : k \in 1..Len(body_lines)}
             IN  [font |-> NormalizeFont(PyStr(body_lines[1].font)),
                  size |-> CHOOSE z \in sizes : \A y \in sizes : Count(y) <= Count(z),
                  line_spacing |-> 14])

\* the profile analyze_pdf_template builds from the first page
PdfProfile(path, page) ==
    With(GroupCharsIntoLines(page.chars), LAMBDA all_lines :
    With(SelectLines(all_lines, LAMBDA l : ~IsPlaceholder(l.text)), LAMBDA real_lines :
        [template_path |-> PyStr(path),
         template_type |-> PyStr("pdf"),
         page |-> [width |-> page.width, height |-> page.height,
                   margins |-> DetectMargins(real_lines, page.width, page.height)],
         name |-> DetectNameStyle(real_lines, page.width),
         sections |-> DetectSections(real_lines),
         body |-> DetectBodyStyle(real_lines)]))

\* analyze_pdf_template(file_path): pdfplumber.open raises for a missing file
\* and a file that is no PDF, pdf.pages[0] for a PDF without pages; every
\* exception ends in the default profile
AnalyzePdfTemplate(path, dsk) ==
    IF ~(path \in DOMAIN dsk /\ dsk[path].fmt = "pdf"
            /\ Len(dsk[path].pages) > 0)
    THEN DefaultFormat(PyStr(path), PyStr("pdf"))
    ELSE IF Len(dsk[path].pages[1].chars) = 0
         THEN DefaultFormat(PyStr(path), PyStr("pdf"))
    ELSE PdfProfile(path, dsk[path].pages[1])

\* the headings analyze_word_template takes from doc.paragraphs[:20]
WordSections(paragraphs) ==
    With(SelectLines(Take(paragraphs, 20),
                     LAMBDA runs : Strip(ParagraphText(runs)) # ""
                                    /\ Len(ParagraphText(runs)) < 60),
         LAMBDA headings :
            [k \in 1..Len(headings) |->
                [heading |-> Strip(ParagraphText(headings[k])), font |-> "Helvetica-Bold",
                 size |-> 11, has_underline |-> TRUE]])

\* analyze_word_template(file_path): Document(file_path) raises for anything
\* but a .docx package
AnalyzeWordTemplate(path, dsk) ==
    IF ~(path \in DOMAIN dsk /\ dsk[path].fmt = "docx")
    THEN DefaultFormat(PyStr(path), PyStr("docx"))
    ELSE [DefaultFormat(PyStr(path), PyStr("docx")) EXCEPT
            !.sections = Take(WordSections(DirectParagraphs(dsk[path].doc.body)), 8)]

-----------------------------------------------------------------------------
(* The analysers applied to bounded template files *)

\* the characters of a text line set at (top, x0): one per character of the
\* text, each advance 6 units wide
CharsAt(str, top, x0, fontname, size) ==
    [i \in 1..Len(str) |->
        [text |-> Ch(str, i), top |-> top, x0 |-> x0 + 6 * (i - 1), fontname |-> fontname,
         size |-> size]]

\* text lines of a template page: a name line, a placeholder line, a heading,
\* a line of blanks, a character one unit below the heading, and a body line
PageLines ==
    << CharsAt("JANE DOE", 72, 270, "ABCDEF+Calibri-Bold", 14),
       CharsAt("Your Name", 100, 72, "Arial", 10),
       CharsAt("Skills", 130, 72, "TimesNewRoman", 11),
       CharsAt("  ", 160, 90, "Arial", 10),
       CharsAt("x", 131, 200, "Courier", 10),
       CharsAt("Python", 190, 72, "Courier", 10) >>

\* the characters of the chosen lines, last line first (the page lists its
\* characters in drawing order, not in reading order)
RECURSIVE PageChars(_, _)
PageChars(chosen, i) ==
    IF i > Len(PageLines) THEN <<>>
    ELSE PageChars(chosen, i + 1) \o (IF i \in chosen THEN PageLines[i] ELSE <<>>)

PageSizes == {<<612, 792>>, <<595, 842>>}

\* PDF templates: without pages, and with a first page of any choice of lines
PdfTemplates ==
    {PdfTemplate(<<>>)} \cup
    {PdfTemplate(<<[width |-> size[1], height |-> size[2], chars |-> PageChars(chosen, 1)]>>) :
        size \in PageSizes, chosen \in SUBSET (1..Len(PageLines))}

\* Word templates: packages without text, with blank text and with headings,
\* and a legacy .doc file
WordTemplates ==
    {DocxFile(FlowDoc(body, <<>>, <<>>)) :
        body \in {<<>>, <<Para(<<" ">>)>>, <<Para(<<>>), Para(<<"  ", "">>)>>,
                  <<Para(<<"EXPERIENCE">>), Para(<<"<List employment history>">>)>>,
                  <<Para(<<"[NAME]">>), TextTable(<<<<"Skill", "Years">>, <<"", "">>>>),
                    Para(<<" Education ">>)>>}}
    \cup {DocFile(FlowDoc(<<Para(<<"EXPERIENCE">>)>>, <<>>, <<>>))}

TemplateFiles == PdfTemplates \cup WordTemplates

AnalyzedPaths == {"templates/t.pdf", "templates/t.docx"}

\* the file at the path, or no file there
AnalyzeInit ==
    /\ template_file \in AnalyzedPaths
    /\ \/ disk = <<>>
       \/ \E file \in TemplateFiles : disk = WriteFile(<<>>, template_file, file)
    /\ profile = <<>>
    /\ resume_data = <<>> /\ template_analysis = <<>> /\ output_path = ""
    /\ has_word_formatter = TRUE /\ has_win32 = FALSE
    /\ opened = {} /\ formatted = [kind |-> "idle"]
    /\ text = "" /\ now_year = "2026" /\ yrs = <<>> /\ durs = <<>>
    /\ HeaderIdle
    /\ ParseIdle
    /\ TableIdle /\ LookupIdle /\ FontIdle

\* analyze_pdf_template(template_file)
CallAnalyzePdfTemplate ==
    /\ profile = <<>>
    /\ profile' = <<[kind |-> "returned", by |-> "analyze_pdf_template",
                     value |-> AnalyzePdfTemplate(template_file, disk)]>>
    /\ UNCHANGED <<template_file, cleanVars, headerVars, parseVars, formatVars, tableVars,
                   lookupVars, fontVars>>

\* analyze_word_template(template_file)
CallAnalyzeWordTemplate ==
    /\ profile = <<>>
    /\ profile' = <<[kind |-> "returned", by |-> "analyze_word_template",
                     value |-> AnalyzeWordTemplate(template_file, disk)]>>
    /\ UNCHANGED <<template_file, cleanVars, headerVars, parseVars, formatVars, tableVars,
                   lookupVars, fontVars>>

AnalyzeNext == CallAnalyzePdfTemplate \/ CallAnalyzeWordTemplate

AnalyzeSpec == AnalyzeInit /\ [][AnalyzeNext]_vars


-----------------------------------------------------------------------------
(* Claims about template analysis *)

\* the file at the path can be read as the analyser's kind of template
ReadableBy(by) ==
    /\ template_file \in DOMAIN disk
    /\ IF by = "analyze_pdf_template"
       THEN disk[template_file].fmt = "pdf" /\ Len(disk[template_file].pages) > 0
       ELSE disk[template_file].fmt = "docx"

\* some character of the first page, or some paragraph, is not blank
HasUsableText(by) ==
    IF by = "analyze_pdf_template"
    THEN \E k \in 1..Len(disk[template_file].pages[1].chars) :
            Strip(disk[template_file].pages[1].chars[k].text) # ""
    ELSE \E k \in 1..Len(DirectParagraphs(disk[template_file].doc.body)) :
            Strip(ParagraphText(DirectParagraphs(disk[template_file].doc.body)[k])) # ""

\* the 612x792 page with 54-unit margins and the empty sections list
IsFixedDefault(value) ==
    /\ value.page = [width |-> 612, height |-> 792,
                     margins |-> [top |-> 54, bottom |-> 54, left |-> 54, right |-> 54]]
    /\ value.sections = <<>>

\* C15: the analysers return and never raise; for a file that cannot be read
\* or has no usable text the result is the fixed default profile; every
\* result carries the given path and a non-empty type, and so passes the
\* two checks of IntelligentFormatter.__init__
C15_SoftFailureDefaultProfile ==
    profile # <<>> =>
        /\ profile[1].kind = "returned"
        /\ (~ReadableBy(profile[1].by) \/ ~HasUsableText(profile[1].by)) =>
                IsFixedDefault(profile[1].value)
        /\ profile[1].value.template_path = PyStr(template_file)
        /\ profile[1].value.template_type.py = "str"
        /\ profile[1].value.template_type.s # ""
        /\ ~Falsy(Get(profile[1].value.template_path))
        /\ ~Falsy(Get(profile[1].value.template_type))


-----------------------------------------------------------------------------
(* Template reconciliation of structured entries: records with experience   *)
(* and education entries, templates with headings, raw bullets and tables   *)

\* the numbers of entries of the longest record: one more than the formatter
\* inserts for experience, and one more than it inserts for education
ManyExperience == 11
ManyEducation == 6

ExperienceEntry(company, role, title, duration, details) ==
    [company |-> company, role |-> role, title |-> title, duration |-> duration,
     details |-> details]
EducationEntry(degree, institution, year, details) ==
    [degree |-> degree, institution |-> institution, year |-> year, details |-> details]

\* two experience entries as the parser leaves them: one with company and
\* role, one with only its title line
ParsedExperience ==
    << ExperienceEntry("Acme Corp", "Engineer", "Engineer at Acme Corp", "2019-2021",
                       <<"Built APIs", "- Led team">>),
       ExperienceEntry("", "", "Globex - Analyst", "2015-2018", <<>>) >>

ParsedEducation ==
    << EducationEntry("BSc Physics", "MIT", "2010-2014", <<>>),
       EducationEntry("MBA, Harvard University", "", "2016", <<"Dean's list">>) >>

\* entry k of a long record
NumberedExperience(n) ==
    [k \in 1..n |-> ExperienceEntry("Co" \o ToString(k), "Dev", "", ToString(2000 + k), <<>>)]
NumberedEducation(n) ==
    [k \in 1..n |-> EducationEntry("Deg" \o ToString(k), "", ToString(2000 + k), <<>>)]

\* a record with the identity of Jane Doe and the given entries, without
\* skills and without sections
Structured(experience, education) ==
    [Identity("Jane Doe", "jane@mail.com", "555-123-4567", "", "", "")
        EXCEPT !.experience = experience, !.education = education]

StructuredRecords ==
    { Structured(<<>>, <<>>),
      Structured(Take(ParsedExperience, 1), Take(ParsedEducation, 1)),
      Structured(ParsedExperience, ParsedEducation),
      Structured(ParsedExperience, <<>>),
      Structured(NumberedExperience(ManyExperience), NumberedEducation(ManyEducation)) }

\* a paragraph of one run
P(txt) == Para(<<txt>>)

\* a table of raw content, told from the others by the text of a cell
RawTable(company) == TextTable(<< <<"Company", "Years">>, <<company, "2001">> >>)

\* one more raw bullet under a heading than _delete_following_bullets scans
ManyBullets == 41

\* templates: headings with raw bullets, numbered lines and plain paragraphs
\* under them; a heading followed by a table; headings inside the cells of a
\* table; placeholders; a heading the generic rule matches too; raw bullets
\* that hold dated entries; a heading over a long list of raw bullets; and a
\* template without headings
SectionTemplates ==
    { FlowDoc(<<P("WORK EXPERIENCE"), P(Bullet \o " Raw job one"), P("2. Raw job two"),
                P("Plain note"), P("- after the note"), P("EDUCATION"), P("- Raw degree"),
                P("SKILLS"), P(Bullet \o " Python")>>, <<>>, <<>>),
      FlowDoc(<<P("EXPERIENCE"), RawTable("Old Co"), P("EDUCATION"), P("* B.A. 1999"),
                RawTable("Old School")>>, <<>>, <<>>),
      FlowDoc(<<P("Resume"),
                Tbl(<< << <<P("Experience"), P(Bullet \o " raw"), RawTable("Old Co"),
                            P("kept")>>,
                          <<P("Education:"), P("1) raw"), P("keep me"), P("- kept too")>> >>,
                       << <<P("Qualifications"), RawTable("Old School"), P("- stays")>>,
                          <<P("- Python")>> >> >>)>>,
              <<>>, <<>>),
      FlowDoc(<<P("Employment"), P("<List employment history>"), P(Bullet \o " sample"),
                P("<Education Background>"), P("- sample")>>, <<>>, <<>>),
      FlowDoc(<<P("EMPLOYMENT HISTORY"), P(Bullet \o " Raw job"), P("Education"),
                P("Closing")>>, <<>>, <<>>),
      FlowDoc(<<P("Experience"), P(Bullet \o " Engineer Jan 2019 - 2021"),
                P(Bullet \o " Acme Corp, Austin, USA"), P(Bullet \o " Built APIs"),
                P("Education"), P("- BSc Physics, MIT University 2014")>>, <<>>, <<>>),
      FlowDoc(<<P("Experience")>>
              \o [k \in 1..ManyBullets |-> P("- item " \o ToString(k))]
              \o <<P("Closing")>>, <<>>, <<>>),
      FlowDoc(<<P("Cover page"), P(Bullet \o " stays"), RawTable("Old Co")>>, <<>>, <<>>) }

\* the formatters run on a .docx template of SectionTemplates for a record of
\* StructuredRecords
BlocksInit ==
    /\ resume_data \in StructuredRecords
    /\ template_analysis = [template_path |-> PyStr(DocxPath), template_type |-> PyStr("docx")]
    /\ output_path = "out/jane.docx"
    /\ has_word_formatter \in BOOLEAN
    /\ has_win32 = FALSE
    /\ \E doc \in SectionTemplates : disk = DiskWith(doc)
    /\ opened = {}
    /\ formatted = [kind |-> "idle"]
    /\ text = "" /\ now_year = "2026" /\ yrs = <<>> /\ durs = <<>>
    /\ HeaderIdle
    /\ ParseIdle
    /\ ProbesIdle

BlocksSpec == BlocksInit /\ [][FormatNext]_vars


-----------------------------------------------------------------------------
(* Claims about the structured blocks *)

\* the formatter of word_formatter.py returned after saving its document
WordFormatted == formatted.kind = "returned" /\ formatted.via = "word"

\* the sibling lists of a document that can hold a heading: the body, and each
\* cell of a table of the body
SiblingLists(doc) ==
    {doc.body}
    \cup UNION { UNION { {doc.body[i].rows[r][c] : c \in 1..Len(doc.body[i].rows[r])} :
                         r \in 1..Len(doc.body[i].rows) } :
                 i \in {k \in 1..Len(doc.body) : doc.body[k].tag = "tbl"} }

\* a heading paragraph of a section: its upper-cased text holds a marker of it
IsHeading(element, section_key) ==
    /\ element.tag = "p"
    /\ ContainsAny(Strip(Upper(ParagraphText(element.runs))), SectionMarkers(section_key))

\* the elements blocks[1..n] follow the j-th of the siblings, in this order,
\* as siblings of it
FollowedBy(siblings, j, blocks) ==
    /\ Len(siblings) >= j + Len(blocks)
    /\ \A k \in 1..Len(blocks) : siblings[j + k] = blocks[k]

\* C19: structured block insertion.  In the saved document every experience
\* heading of a record with experience entries e1..en is followed, as its
\* next siblings, by the blocks of e1..e(min(n, 10)) in this order, one block
\* per entry, and every education heading of a record with education entries
\* by the blocks of its first min(n, 5) entries
C19_BlocksFollowAnchorInOrder ==
    WordFormatted =>
        \A siblings \in SiblingLists(OutputDoc) : \A j \in 1..Len(siblings) :
            /\ (IsHeading(siblings[j], "experience") /\ Len(resume_data.experience) > 0)
                => FollowedBy(siblings, j, ExperienceBlocks(Take(resume_data.experience, 10)))
            /\ (IsHeading(siblings[j], "education") /\ Len(resume_data.education) > 0)
                => FollowedBy(siblings, j, EducationBlocks(Take(resume_data.education, 5)))

\* what the claim gets right: a heading of a record with one entry of its
\* section is followed by the block of that entry
C19_SingleBlockFollowsAnchor ==
    WordFormatted =>
        \A siblings \in SiblingLists(OutputDoc) : \A j \in 1..Len(siblings) :
            /\ (IsHeading(siblings[j], "experience") /\ Len(resume_data.experience) = 1)
                => FollowedBy(siblings, j, ExperienceBlocks(resume_data.experience))
            /\ (IsHeading(siblings[j], "education") /\ Len(resume_data.education) = 1)
                => FollowedBy(siblings, j, EducationBlocks(resume_data.education))

\* a heading of a record with several entries is followed by one table only,
\* the block of the first entry, and the block of the second entry lies in
\* the first cell of that table
C19_LaterBlocksNested ==
    WordFormatted =>
        \A siblings \in SiblingLists(OutputDoc) : \A j \in 1..Len(siblings) :
            (IsHeading(siblings[j], "experience") /\ Len(resume_data.experience) > 1) =>
                /\ Len(siblings) > j
                /\ siblings[j + 1].tag = "tbl"
                /\ Len(siblings[j + 1].rows[1][1]) = 2
                /\ siblings[j + 1].rows[1][1][1] = ExperienceBlock(resume_data.experience[1]).rows[1][1][1]
                /\ siblings[j + 1].rows[1][1][2].tag = "tbl"
                /\ siblings[j + 1].rows[1][1][2].rows[1][1][1]
                        = ExperienceBlock(resume_data.experience[2]).rows[1][1][1]

\* a record with several experience entries was formatted into a template
\* with an experience heading
C19_SeveralEntriesAtHeading ==
    /\ WordFormatted
    /\ Len(resume_data.experience) > 1
    /\ \E siblings \in SiblingLists(OutputDoc) : \E j \in 1..Len(siblings) :
            IsHeading(siblings[j], "experience")


\* a raw bullet under a heading: a bullet-like or numbered paragraph that is
\* no heading itself
IsRawBullet(element) ==
    /\ element.tag = "p"
    /\ IsBulletLike(Strip(TextNodes(element.runs)))
    /\ ~ContainsAny(Upper(Strip(TextNodes(element.runs))), HeadingStopWords)

\* blocks are inserted at the j-th of the siblings: it is an experience or
\* education heading and the record, or the raw content under the heading,
\* yields entries of that section
BlocksInsertedAt(siblings, j, d) ==
    \/ /\ IsHeading(siblings[j], "experience")
       /\ \/ Len(d.experience) > 0
          \/ Len(BuildExperienceFromBullets(CollectBulletsAfterHeading(siblings, j))) > 0
    \/ /\ IsHeading(siblings[j], "education")
       /\ \/ Len(d.education) > 0
          \/ Len(BuildEducationFromBullets(CollectBulletsAfterHeading(siblings, j))) > 0

\* the siblings with the paragraphs marked that are deleted when, at every
\* heading where blocks are inserted, the raw bullets that follow it are
\* deleted, at most `limit` of them per heading
MarkDeleted(siblings, d, limit) ==
    With2(SubSeq([k \in 1..Len(siblings) |-> IsRawBullet(siblings[k])], 1, Len(siblings)),
          SubSeq([k \in 1..Len(siblings) |-> BlocksInsertedAt(siblings, k, d)], 1,
                 Len(siblings)),
          LAMBDA raw, served :
            [i \in 1..Len(siblings) |->
                IF /\ raw[i]
                   /\ \E j \in 1..(i - 1) :
                        /\ served[j]
                        /\ i - j <= limit
                        /\ \A k \in (j + 1)..(i - 1) : raw[k]
                THEN [tag |-> "deleted", runs |-> <<>>, rows |-> <<>>]
                ELSE siblings[i]])

\* the paragraphs among the siblings, in order
ParagraphsOf(siblings) == SelectSeq(siblings, LAMBDA element : element.tag = "p")

\* the i-th sibling comes after a heading where blocks are inserted, with
\* nothing but raw bullets between them
UnderServedHeading(siblings, i, d) ==
    \E j \in 1..(i - 1) :
        /\ BlocksInsertedAt(siblings, j, d)
        /\ \A k \in (j + 1)..(i - 1) : IsRawBullet(siblings[k])

\* a table without an experience or education heading in its cells
HoldsNoHeading(t) ==
    \A k \in 1..Len(ElementsParagraphs(<<t>>)) :
        /\ ~ContainsAny(Upper(ElementsParagraphs(<<t>>)[k]), SectionMarkers("experience"))
        /\ ~ContainsAny(Upper(ElementsParagraphs(<<t>>)[k]), SectionMarkers("education"))

\* a paragraph of the body holds a section placeholder, or is a heading
HoldsPlaceholder(doc) ==
    \E i \in 1..Len(doc.body) : \E k \in 1..Len(SectionPlaceholders) :
        /\ doc.body[i].tag = "p"
        /\ Contains(Lower(ParagraphText(doc.body[i].runs)), Lower(SectionPlaceholders[k][2]))
HoldsBodyHeading(doc) ==
    \E i \in 1..Len(doc.body) :
        IsHeading(doc.body[i], "experience") \/ IsHeading(doc.body[i], "education")

\* the sibling lists of the template with what the formatter made of them:
\* the body, and the cells of the tables of a body that has no heading
SiblingPairs ==
    { [template |-> TemplateDoc.body, output |-> OutputDoc.body, in_cell |-> FALSE] }
    \cup (IF HoldsBodyHeading(TemplateDoc) THEN {}
          ELSE UNION { UNION { { [template |-> TemplateDoc.body[i].rows[r][c],
                                  output |-> OutputDoc.body[i].rows[r][c],
                                  in_cell |-> TRUE] :
                                 c \in 1..Len(TemplateDoc.body[i].rows[r]) } :
                               r \in 1..Len(TemplateDoc.body[i].rows) } :
                       i \in {k \in 1..Len(TemplateDoc.body) : TemplateDoc.body[k].tag = "tbl"} })

Elements(siblings) == {siblings[k] : k \in 1..Len(siblings)}

\* the raw bullets under the headings where blocks are inserted are gone, at
\* most `limit` per heading, and every other paragraph is in place
BulletsRemoved(pair, d, limit) ==
    ParagraphsOf(pair.output) = ParagraphsOf(MarkDeleted(pair.template, d, limit))

\* the table right after a heading where blocks are inserted is gone
NextTableRemoved(pair, d) ==
    \A i \in 2..Len(pair.template) :
        (pair.template[i].tag = "tbl" /\ BlocksInsertedAt(pair.template, i - 1, d))
            => pair.template[i] \notin Elements(pair.output)

\* the table right after a heading where blocks are inserted is still there
NextTableKept(pair, d) ==
    \A i \in 2..Len(pair.template) :
        (pair.template[i].tag = "tbl" /\ BlocksInsertedAt(pair.template, i - 1, d))
            => pair.template[i] \in Elements(pair.output)

\* the tables of raw content that are not under a heading where blocks are
\* inserted are in place
OtherTablesKept(pair, d) ==
    \A i \in 1..Len(pair.template) :
        (/\ pair.template[i].tag = "tbl"
         /\ HoldsNoHeading(pair.template[i])
         /\ ~UnderServedHeading(pair.template, i, d))
            => pair.template[i] \in Elements(pair.output)

\* C20: raw content removal before insertion.  For a template without section
\* placeholders, in the body and in every table cell of the saved document:
\* at each experience or education heading where blocks are inserted the raw
\* bullets (bullet-like or numbered paragraphs) that immediately follow it are
\* gone, and so is the table that immediately follows it; every other
\* paragraph (the first paragraph that is no bullet, the next heading, and all
\* after them) and every other raw table is in place; and where no block is
\* inserted nothing is gone
C20_RawContentDeleted ==
    (WordFormatted /\ ~HoldsPlaceholder(TemplateDoc)) =>
        \A pair \in SiblingPairs :
            /\ BulletsRemoved(pair, resume_data, Len(pair.template))
            /\ NextTableRemoved(pair, resume_data)
            /\ OtherTablesKept(pair, resume_data)

\* what the claim gets right: the same with the table after a heading gone in
\* a table cell only, kept in the body, and with at most max_scan = 40 raw
\* bullets deleted per heading
C20_RawContentDeletedAsScanned ==
    (WordFormatted /\ ~HoldsPlaceholder(TemplateDoc)) =>
        \A pair \in SiblingPairs :
            /\ BulletsRemoved(pair, resume_data, 40)
            /\ IF pair.in_cell THEN NextTableRemoved(pair, resume_data)
               ELSE NextTableKept(pair, resume_data)
            /\ OtherTablesKept(pair, resume_data)

\* the claim without the long list of bullets: it fails on the table after a
\* heading of the body alone
C20_ShortListsDeleted ==
    (/\ WordFormatted
     /\ ~HoldsPlaceholder(TemplateDoc)
     /\ Len(TemplateDoc.body) <= 40) =>
        \A pair \in SiblingPairs :
            /\ BulletsRemoved(pair, resume_data, Len(pair.template))
            /\ pair.in_cell => NextTableRemoved(pair, resume_data)
            /\ OtherTablesKept(pair, resume_data)

\* blocks were inserted at a heading of the body that is followed by a table
C20_TableUnderBodyHeading ==
    /\ WordFormatted
    /\ \E i \in 2..Len(TemplateDoc.body) :
            /\ TemplateDoc.body[i].tag = "tbl"
            /\ BlocksInsertedAt(TemplateDoc.body, i - 1, resume_data)


-----------------------------------------------------------------------------
(* _extract_skills_with_details and _fill_skills_table applied to bounded    *)
(* records and tables                                                        *)

\* the number of skills of the longest record: one more than a table takes
ManySkills == 16

NumberedSkills(n) == [k \in 1..n |-> "Skill" \o ToString(k)]

SkillLists ==
    { <<>>, <<"Python">>, <<"Python", "SQL", "Go">>, <<"SQL", "Title">>,
      NumberedSkills(ManySkills) }

\* experience lists: durations in 20xx, in 19xx, across both, open-ended, of
\* one year, and none
SkillExperience ==
    { <<>>,
      <<ExperienceEntry("Acme Corp", "Engineer", "Engineer at Acme Corp", "2019-2021",
                        <<"Built Python APIs">>)>>,
      <<ExperienceEntry("Initech", "Developer", "Developer", "1995-1999",
                        <<"Wrote SQL reports in Python">>)>>,
      <<ExperienceEntry("Globex", "Analyst", "", "2020-Present", <<"python scripts">>),
        ExperienceEntry("Soylent", "Clerk", "", "2015-2018", <<"Python and SQL">>)>>,
      <<ExperienceEntry("Hooli", "Dev", "", "1998-2003", <<"Go services", "SQL">>)>>,
      <<ExperienceEntry("Umbrella", "Intern", "", "2021", <<"SQL">>),
        ExperienceEntry("Vehement", "Dev", "", "", <<"Python">>)>> }

SkillRecords ==
    { [Structured(experience, <<>>) EXCEPT !.skills = skills] :
        experience \in SkillExperience, skills \in SkillLists }

\* tables with a header row and data rows of the template
SkillTables ==
    { TextTable(<< <<"Skill", "Years", "Last Used">>, <<"Java", "5", "2020">>,
                   <<"C", "2", "2019">> >>),
      TextTable(<< <<"Technology", "Experience">>, <<"Java", "5">> >>),
      TextTable(<< <<"Core Competency", "Years">>, <<"Java", "5">> >>),
      TextTable(<< <<"Skills / Years", "Most recent">>, <<"Java", "2020">> >>),
      TextTable(<< <<"Skill", "Years", "Skill level">>, <<"Java", "5", "high">> >>),
      TextTable(<< <<"Skill", "Years">> >>) }

SkillsInit ==
    /\ resume_data \in SkillRecords
    /\ table \in SkillTables
    /\ is_skills_table = <<>> /\ skills_list = <<>> /\ filled = <<>>
    /\ template_analysis = <<>>
    /\ output_path = ""
    /\ has_word_formatter = TRUE
    /\ has_win32 = FALSE
    /\ disk = <<>>
    /\ opened = {}
    /\ formatted = [kind |-> "idle"]
    /\ text = "" /\ now_year = "2026" /\ yrs = <<>> /\ durs = <<>>
    /\ HeaderIdle
    /\ ParseIdle
    /\ LookupIdle /\ FontIdle /\ AnalyzeIdle

\* formatter._extract_skills_with_details()
CallExtractSkillsWithDetails ==
    /\ skills_list = <<>>
    /\ skills_list' = <<ExtractSkillsWithDetails(resume_data)>>
    /\ UNCHANGED <<table, is_skills_table, filled, cleanVars, headerVars, parseVars,
                   formatVars, lookupVars, fontVars, analyzeVars>>

\* formatter._fill_skills_table(table)
CallFillSkillsTable ==
    /\ filled = <<>>
    /\ filled' = <<FillSkillsTable(table, resume_data)>>
    /\ UNCHANGED <<table, is_skills_table, skills_list, cleanVars, headerVars, parseVars,
                   formatVars, lookupVars, fontVars, analyzeVars>>

SkillsNext == CallExtractSkillsWithDetails \/ CallFillSkillsTable

SkillsSpec == SkillsInit /\ [][SkillsNext]_vars


-----------------------------------------------------------------------------
(* Claims about the skills table (under SkillsSpec) *)

\* the table after the call is the header row of the template followed by one
\* row per skill of the record, the first 15 of them, in list order, and no
\* data row of the template is left
HeaderThenSkillRows(before, after, skills) ==
    /\ Len(after.rows) = 1 + Min(15, Len(skills))
    /\ after.rows[1] = before.rows[1]
    /\ \A k \in 1..Min(15, Len(skills)) :
            \E c \in 1..Len(after.rows[k + 1]) : CellText(after.rows[k + 1][c]) = skills[k]
    /\ \A r \in 2..Len(before.rows) : \A q \in 1..Len(after.rows) : after.rows[q] # before.rows[r]

\* C21: skills-table fill.  For a table _is_skills_table detects and a record
\* with n >= 1 skills, after _fill_skills_table the table is its header row
\* followed by exactly min(15, n) data rows, one per skill in list order, and
\* none of the data rows of the template remains
C21_SkillsTableFilled ==
    (filled # <<>> /\ IsSkillsTable(table) /\ Len(resume_data.skills) >= 1) =>
        HeaderThenSkillRows(table, filled[1].table, resume_data.skills)

\* what the claim gets right: the same for a detected table with a header
\* cell that holds "skill" or "technology"
C21_SkillsTableFilledAtSkillColumn ==
    (/\ filled # <<>>
     /\ IsSkillsTable(table)
     /\ Len(resume_data.skills) >= 1
     /\ HasColumn(HeaderTexts(table), <<"skill", "technology">>)) =>
        /\ HeaderThenSkillRows(table, filled[1].table, resume_data.skills)
        /\ filled[1].returned = Min(15, Len(resume_data.skills))

\* a detected table whose skill column is named by "competency" alone is left
\* as the template had it
C21_CompetencyTableUntouched ==
    (/\ filled # <<>>
     /\ IsSkillsTable(table)
     /\ ~HasColumn(HeaderTexts(table), <<"skill", "technology">>)) =>
        filled[1] = [table |-> table, returned |-> 0]

\* _fill_skills_table was called on a detected table whose only skill header
\* is "Core Competency", for a record with skills
C21_CompetencyTableCalled ==
    /\ filled # <<>>
    /\ IsSkillsTable(table)
    /\ Len(resume_data.skills) >= 1
    /\ ~HasColumn(HeaderTexts(table), <<"skill", "technology">>)


\* the duration is "S-E" with four-digit years S and E
IsYearRange(duration) ==
    /\ Len(duration) = 9
    /\ Ch(duration, 5) = "-"
    /\ \A k \in {1, 2, 3, 4, 6, 7, 8, 9} : Contains(DigitChars, Ch(duration, k))

\* the text of an entry: its company, role, title, duration and details
EntryText(exp) ==
    Join(" ", <<exp.company, exp.role, exp.title, exp.duration>> \o exp.details)

\* the entries that mention the skill, in list order
MentioningEntries(skill_name, experience) ==
    {k \in 1..Len(experience) : Contains(Lower(EntryText(experience[k])), Lower(skill_name))}

\* the years column for the span S..E
SpanYears(start_year, end_year) == ToString(end_year - start_year) \o "+ years"

\* C22: skill years derivation.  For a skill that an experience entry with the
\* duration "S-E", S < E, mentions, the years column is "(E-S)+ years", for
\* years in 19xx as for years in 20xx; the defaults "1+ years" and "Recent"
\* are used only when no entry mentions the skill
C22_YearsFromDuration ==
    skills_list # <<>> =>
        \A k \in 1..Len(skills_list[1]) :
            With(MentioningEntries(resume_data.skills[k], resume_data.experience), LAMBDA found :
                /\ \A m \in found :
                        (/\ \A q \in found : m <= q
                         /\ IsYearRange(resume_data.experience[m].duration)
                         /\ IntOf(SubSeq(resume_data.experience[m].duration, 1, 4))
                                < IntOf(SubSeq(resume_data.experience[m].duration, 6, 9))) =>
                            skills_list[1][k].years =
                                SpanYears(IntOf(SubSeq(resume_data.experience[m].duration, 1, 4)),
                                          IntOf(SubSeq(resume_data.experience[m].duration, 6, 9)))
                /\ (skills_list[1][k].years = "1+ years" /\ skills_list[1][k].last_used = "Recent")
                        => found = {})

\* what the claim gets right: the same for a duration with both years in 20xx,
\* and the current year as the end of an open-ended duration from 20xx
C22_YearsFromDurationSince2000 ==
    skills_list # <<>> =>
        \A k \in 1..Len(skills_list[1]) :
            With(FirstMention(resume_data.skills[k], resume_data.experience), LAMBDA m :
                m # 0 =>
                    With(resume_data.experience[m].duration, LAMBDA duration :
                        /\ (/\ IsYearRange(duration)
                            /\ SubSeq(duration, 1, 2) = "20" /\ SubSeq(duration, 6, 7) = "20"
                            /\ IntOf(SubSeq(duration, 1, 4)) < IntOf(SubSeq(duration, 6, 9))) =>
                                skills_list[1][k].years =
                                    SpanYears(IntOf(SubSeq(duration, 1, 4)), IntOf(SubSeq(duration, 6, 9)))
                        /\ (/\ Len(duration) > 5
                            /\ SubSeq(duration, 1, 2) = "20"
                            /\ Lower(SubSeq(duration, 5, Len(duration))) \in {"-present", "-current"}
                            /\ IntOf(SubSeq(duration, 1, 4)) < SkillsCurrentYear) =>
                                /\ skills_list[1][k].years =
                                        SpanYears(IntOf(SubSeq(duration, 1, 4)), SkillsCurrentYear)
                                /\ skills_list[1][k].last_used = "Present"))

\* a year of 19xx is not read: a span within 19xx gives the defaults, and a
\* span from 19xx into 20xx is counted from its end year to the current year
C22_YearsBefore2000Unread ==
    skills_list # <<>> =>
        \A k \in 1..Len(skills_list[1]) :
            With(FirstMention(resume_data.skills[k], resume_data.experience), LAMBDA m :
                (m # 0 /\ IsYearRange(resume_data.experience[m].duration)) =>
                    With(resume_data.experience[m].duration, LAMBDA duration :
                        /\ (SubSeq(duration, 1, 2) = "19" /\ SubSeq(duration, 6, 7) = "19") =>
                                skills_list[1][k] = [skill |-> resume_data.skills[k],
                                                     years |-> "1+ years", last_used |-> "Recent"]
                        /\ (SubSeq(duration, 1, 2) = "19" /\ SubSeq(duration, 6, 7) = "20"
                                /\ IntOf(SubSeq(duration, 6, 9)) < SkillsCurrentYear) =>
                                skills_list[1][k].years =
                                    SpanYears(IntOf(SubSeq(duration, 6, 9)), SkillsCurrentYear)))

\* the skills of a record were read against an entry of 1995-1999 that
\* mentions one of them
C22_MentionedBefore2000 ==
    /\ skills_list # <<>>
    /\ \E k \in 1..Len(skills_list[1]) :
            \E m \in MentioningEntries(resume_data.skills[k], resume_data.experience) :
                resume_data.experience[m].duration = "1995-1999"


-----------------------------------------------------------------------------
(* The line-scan loops, one iteration at a time *)

\* the loop body without the i = k of Case B: the entry is appended and its
\* title line is looked at again
ExperienceIterationStaying(ls, i, year) ==
    IF ContainsDateRange(ls[i])
    THEN With2(ExperienceCaseA(ls, i, year), SkipHeaders(ls, i + 1), LAMBDA a, j :
            [taken |-> "A", entry |-> a.entry, next |-> a.next,
             duration_at |-> i, title_at |-> IF j <= Len(ls) THEN j ELSE 0,
             details_at |-> (j + 1)..(a.next - 1)])
    ELSE IF LooksLikeCompanyOrRole(ls[i])
    THEN With2(ExperienceCaseB(ls, i, year), i + 1 <= Len(ls) /\ ContainsDateRange(ls[i + 1]),
               LAMBDA b, dated :
            [taken |-> "B", entry |-> b.entry, next |-> i,
             duration_at |-> IF dated THEN i + 1 ELSE 0, title_at |-> i,
             details_at |-> (IF dated THEN i + 2 ELSE i + 1)..(b.next - 1)])
    ELSE [taken |-> "skip", next |-> i + 1]

\* one pass through the body of the while loop of _extract_experience at
\* index i: the branch taken, the entry it appends, the index it leaves, and
\* the indices of the lines the entry was made from (0: none)
ExperienceIteration(ls, i, year) ==
    IF ContainsDateRange(ls[i])
    THEN With2(ExperienceCaseA(ls, i, year), SkipHeaders(ls, i + 1), LAMBDA a, j :
            [taken |-> "A", entry |-> a.entry, next |-> a.next,
             duration_at |-> i, title_at |-> IF j <= Len(ls) THEN j ELSE 0,
             details_at |-> (j + 1)..(a.next - 1)])
    ELSE IF LooksLikeCompanyOrRole(ls[i])
    THEN With2(ExperienceCaseB(ls, i, year), i + 1 <= Len(ls) /\ ContainsDateRange(ls[i + 1]),
               LAMBDA b, dated :
            [taken |-> "B", entry |-> b.entry, next |-> b.next,
             duration_at |-> IF dated THEN i + 1 ELSE 0, title_at |-> i,
             details_at |-> (IF dated THEN i + 2 ELSE i + 1)..(b.next - 1)])
    ELSE [taken |-> "skip", next |-> i + 1]

\* one pass through the body of the while loop of _extract_education
EducationIteration(ls, i, year) ==
    IF Contains(ls[i], ":") \/ ContainsAny(Lower(ls[i]), InstitutionWords)
    THEN With2(ParseDegreeInstitutionLine(ls[i]),
               i + 1 <= Len(ls) /\ ContainsDateRange(ls[i + 1]), LAMBDA di, dated :
            [taken |-> "degree",
             entry |-> [degree |-> Strip(di[1]), institution |-> StripLocation(di[2]),
                        year |-> CleanYears(IF dated THEN ls[i + 1] ELSE ls[i], year),
                        details |-> <<>>],
             next |-> IF dated THEN i + 2 ELSE i + 1,
             duration_at |-> IF dated THEN i + 1 ELSE 0, title_at |-> i, details_at |-> {}])
    ELSE [taken |-> "skip", next |-> i + 1]

\* one pass through the body of the while loop of _build_experience_from_bullets
ExperienceBulletsIteration(bullets, i) ==
    IF Matches(ReYearAnywhere, bullets[i], FALSE)
    THEN With(NextDated(bullets, i + 2), LAMBDA j :
            [taken |-> "dated", entry |-> Head(ExperienceFromBullets(bullets, i)), next |-> j,
             duration_at |-> i, title_at |-> IF i + 1 <= Len(bullets) THEN i + 1 ELSE 0,
             details_at |-> (i + 2)..(j - 1)])
    ELSE [taken |-> "skip", next |-> i + 1]

\* one pass through the body of the while loop of _build_education_from_bullets
EducationBulletsIteration(bullets, i) ==
    With2(SearchFrom(ReInstitution, bullets[i], 0, TRUE).found,
          i + 1 <= Len(bullets) /\ Matches(ReYearAnywhere, bullets[i + 1], FALSE),
          LAMBDA named, dated :
            [taken |-> IF named THEN "institution" ELSE IF dated THEN "year next" ELSE "alone",
             entry |-> Head(EducationFromBullets(bullets, i)),
             next |-> IF ~named /\ dated THEN i + 2 ELSE i + 1,
             duration_at |-> IF ~named /\ dated THEN i + 1 ELSE 0, title_at |-> i,
             details_at |-> {}])

\* the loops and the iteration of each
Loops == {"experience", "education", "experience bullets", "education bullets"}

Iteration(loop, ls, i, year) ==
    CASE loop = "experience" -> ExperienceIteration(ls, i, year)
      [] loop = "education" -> EducationIteration(ls, i, year)
      [] loop = "experience bullets" -> ExperienceBulletsIteration(ls, i)
      [] loop = "education bullets" -> EducationBulletsIteration(ls, i)

\* the lines a loop scans: the parser's loops scan the normalized lines of
\* their section of self.lines, the formatter's loops the bullets handed to them
ScannedLines(loop, ls) ==
    CASE loop = "experience" -> NormalizedLines(FindSection(ls, ExperienceKeywords))
      [] loop = "education" -> NormalizedLines(FindSection(ls, EducationKeywords))
      [] OTHER -> ls

\* what the function the loop belongs to returns for these lines
LoopResult(loop, ls, year) ==
    CASE loop = "experience" -> ExtractExperience(ls, year)
      [] loop = "education" -> ExtractEducation(ls, year)
      [] loop = "experience bullets" -> BuildExperienceFromBullets(ls)
      [] loop = "education bullets" -> BuildEducationFromBullets(ls)

MaxScanLines == 3

\* lines of an experience section and of an education section
ExperiencePool ==
    {"2020-2023", "Engineer Jan 2020 - Present", "Senior Developer", "Acme Solutions",
     "Developer at Acme Corp", "- Led team"}
EducationPool == {"BSc: MIT", "Harvard University 2015", "2010 - 2014", "Physics"}

\* the sequences of at most n lines of a pool
RECURSIVE LinesUpTo(_, _)
LinesUpTo(pool, n) ==
    IF n = 0 THEN {<<>>}
    ELSE LET shorter == LinesUpTo(pool, n - 1)
         IN  shorter \cup {Append(ls, ln) : ls \in {s \in shorter : Len(s) = n - 1}, ln \in pool}

\* self.lines of a resume with the section, or the bullets of the section
ScanInputs(loop) ==
    CASE loop = "experience" ->
            {<<"EXPERIENCE">> \o ls : ls \in LinesUpTo(ExperiencePool, MaxScanLines)}
      [] loop = "education" ->
            {<<"EDUCATION">> \o ls : ls \in LinesUpTo(EducationPool, MaxScanLines)}
      [] loop = "experience bullets" -> LinesUpTo(ExperiencePool, MaxScanLines)
      [] loop = "education bullets" -> LinesUpTo(EducationPool, MaxScanLines)

\* the loop at its start: the lines it scans, the index, the iterations run
\* and, for every index, what the loop body does there (a function of the
\* lines and the index alone)
ScanStart(loop, ls, year) ==
    [loop |-> loop, ls |-> ls, i |-> 1, out |-> <<>>, done |-> FALSE,
     body |-> [n \in 1..Len(ls) |-> Iteration(loop, ls, n, year)]]

ScanInit ==
    /\ now_year \in ParseYears
    /\ \E loop \in Loops :
        /\ lines \in ScanInputs(loop)
        /\ scan = ScanStart(loop, ScannedLines(loop, lines), now_year)
    /\ source = [readable |-> FALSE, pages |-> <<>>]
    /\ file_path = "" /\ file_type = "" /\ raw_text = ""
    /\ parsed = [kind |-> "idle"]
    /\ text = "" /\ yrs = <<>> /\ durs = <<>>
    /\ HeaderIdle
    /\ FormatIdle
    /\ ProbesIdle

\* the loop test fails: the function returns its list
ScanReturn ==
    /\ scan.loop \in Loops
    /\ ~scan.done
    /\ scan.i > Len(scan.ls)
    /\ scan' = [scan EXCEPT !.done = TRUE]
    /\ UNCHANGED <<source, file_path, file_type, raw_text, lines, parsed, cleanVars, headerVars,
                   formatVars, tableVars, lookupVars, fontVars, analyzeVars>>

\* one iteration of the loop that appends an entry
ScanEntry ==
    /\ scan.loop \in Loops
    /\ ~scan.done
    /\ scan.i <= Len(scan.ls)
    /\ LET it == scan.body[scan.i]
       IN  /\ it.taken # "skip"
           /\ scan' = [scan EXCEPT !.i = it.next, !.out = Append(@, it)]
    /\ UNCHANGED <<source, file_path, file_type, raw_text, lines, parsed, cleanVars, headerVars,
                   formatVars, tableVars, lookupVars, fontVars, analyzeVars>>

\* one iteration of the loop that passes over a line
ScanSkip ==
    /\ scan.loop \in Loops
    /\ ~scan.done
    /\ scan.i <= Len(scan.ls)
    /\ LET it == scan.body[scan.i]
       IN  /\ it.taken = "skip"
           /\ scan' = [scan EXCEPT !.i = it.next]
    /\ UNCHANGED <<source, file_path, file_type, raw_text, lines, parsed, cleanVars, headerVars,
                   formatVars, tableVars, lookupVars, fontVars, analyzeVars>>

ScanNext == ScanReturn \/ ScanEntry \/ ScanSkip

ScanSpec == ScanInit /\ [][ScanNext]_vars

\* the interpreter runs the loop on: an iteration that can be taken is taken
ScanLiveSpec == ScanSpec /\ WF_vars(ScanNext)

\* the entries of the iterations
RECURSIVE EntriesOf(_)
EntriesOf(out) == IF Len(out) = 0 THEN <<>> ELSE <<Head(out).entry>> \o EntriesOf(Tail(out))

\* the loop, run one iteration at a time, returns what its function returns
ScanAgrees ==
    (scan.loop \in Loops /\ scan.done) =>
        EntriesOf(scan.out) = LoopResult(scan.loop, lines, now_year)


-----------------------------------------------------------------------------
(* Claims about the line-scan loops (under ScanSpec) *)

\* the line holds none of the delimiters _parse_company_role_line splits at
NoDelimiter(ln) ==
    /\ ~Contains(ln, " - ")
    /\ ~Contains(ln, " " \o EnDash \o " ")
    /\ ~Contains(Lower(ln), " at ")
    /\ ~Contains(ln, "|")
    /\ ~Contains(ln, ",")

\* the line an entry's company and role are split from
CompanyLineOf(it) ==
    IF it.taken = "A" THEN StripBullet(scan.ls[it.title_at]) ELSE scan.ls[it.title_at]

\* the entries of the experience scan made from a title line without delimiter
WholeLineEntries ==
    IF scan.loop # "experience" THEN {}
    ELSE {k \in 1..Len(scan.out) :
            scan.out[k].title_at # 0 /\ NoDelimiter(CompanyLineOf(scan.out[k]))}

\* the whole line is the role, or with a company-suffix keyword the company
WholeLineSplit(it) ==
    IF ContainsAny(Lower(CompanyLineOf(it)), CompanyWordsWhole)
    THEN it.entry.company = Strip(CompanyLineOf(it)) /\ it.entry.role = ""
    ELSE it.entry.company = "" /\ it.entry.role = Strip(CompanyLineOf(it))

\* C23 as stated: company/role fallback.  An entry whose title line holds no
\* delimiter and no company-suffix keyword has the whole line as its role and
\* an empty company; with a keyword it has the whole line as its company and
\* an empty role; in Pattern A (date first) as in Pattern B (role first)
C23_WholeLineFallback ==
    \A k \in WholeLineEntries : WholeLineSplit(scan.out[k])

\* C23, as the code has it: the fallback holds for the entries of Pattern B;
\* an entry of Pattern A has the whole title line as its company, with or
\* without a keyword, and as its role what is left of the date line without
\* its dates, or, when nothing is left, the role of the fallback
C23_WholeLineFallbackByPattern ==
    \A k \in WholeLineEntries :
        With(scan.out[k], LAMBDA it :
            IF it.taken = "B" THEN WholeLineSplit(it)
            ELSE With2(CompanyLineOf(it), ExtractRoleFromDatedLine(scan.ls[it.duration_at]),
                       LAMBDA company_line, role_from_date :
                    /\ it.entry.company = Strip(company_line)
                    /\ it.entry.role =
                            IF role_from_date # "" THEN StripLocation(role_from_date)
                            ELSE IF ContainsAny(Lower(company_line), CompanyWordsWhole) THEN ""
                            ELSE Strip(company_line)))

\* the scan made an entry of Pattern A from the title line "Senior Developer"
\* and an entry of Pattern B from the title line "Acme Solutions"
C23_Witness ==
    /\ scan.loop = "experience"
    /\ scan.done
    /\ \E k \in WholeLineEntries :
            scan.out[k].taken = "A" /\ CompanyLineOf(scan.out[k]) = "Senior Developer"
    /\ \E k \in WholeLineEntries :
            scan.out[k].taken = "B" /\ CompanyLineOf(scan.out[k]) = "Acme Solutions"


-----------------------------------------------------------------------------
(* _extract_name applied to bounded resume heads *)

\* the most lines above the first contact line of a modelled resume
MaxAbove == 4

\* lines without a contact marker: a single capitalised word, a name, two
\* words of which one starts with a capital
AbovePool == {"Jane", "Jane A. Doe", "Jane doe"}

\* the first lines of a resume: lines without a contact marker, then an
\* email line, a phone line or neither, then one more line or none
HeadLists ==
    {above \o contact \o below :
        above \in LinesUpTo(AbovePool, MaxAbove),
        contact \in {<<>>, <<"jane.doe@mail.com">>, <<"555-123-4567">>},
        below \in {<<>>, <<"jane.doe@mail.com">>, <<"Jane A. Doe">>}}

NameInit ==
    /\ lines \in HeadLists
    /\ file_path = "uploads/resume_final_copy.pdf"
    /\ file_type = "pdf"
    /\ source = [readable |-> FALSE, pages |-> <<>>]
    /\ raw_text = ""
    /\ parsed = [kind |-> "idle"]
    /\ scan = [loop |-> "idle"]
    /\ find_keywords = <<>> /\ section_lines = <<>> /\ candidate_name = <<>>
    /\ text = "" /\ now_year = "2026" /\ yrs = <<>> /\ durs = <<>>
    /\ HeaderIdle
    /\ FormatIdle
    /\ TableIdle /\ FontIdle /\ AnalyzeIdle

NameNext == CallExtractName

NameSpec == NameInit /\ [][NameNext]_vars

-----------------------------------------------------------------------------
(* Claims about the name cascade (under NameSpec) *)

\* the indices of the contact lines among the first 30: an email or a phone number
ContactLines ==
    {i \in 1..Min(30, Len(lines)) :
        Matches(ReEmailName, lines[i], FALSE) \/ AnyMatches(PhonePatternsName, lines[i], FALSE)}

\* the earliest contact line, 0 without one
EarliestContact ==
    With(ContactLines, LAMBDA found :
        IF found = {} THEN 0 ELSE CHOOSE p \in found : \A q \in found : p <= q)

\* the lines stage 1 looks at: the three above the contact line p and that line
AroundContact(p) == IF p = 0 THEN {} ELSE Max(1, p - 3)..p

\* the line has no contact marker, least to most words, and all of them but
\* at most one, and at least capitals of them, start with a capital
NamedBy(ln, least, most, capitals) ==
    With(SplitWs(Strip(ln)), LAMBDA words :
        /\ Len(words) \in least..most
        /\ CapitalisedCount(words) >= Max(capitals, Len(words) - 1)
        /\ ~HasContactInfo(Strip(ln)))

\* the first line around the earliest contact line that is a name by these
\* numbers, 0 without one
FirstNamedBy(least, most, capitals) ==
    With({i \in AroundContact(EarliestContact) : NamedBy(lines[i], least, most, capitals)},
         LAMBDA hits : IF hits = {} THEN 0 ELSE CHOOSE i \in hits : \A j \in hits : i <= j)

-----------------------------------------------------------------------------
(* Claims about the font styles (under FontSpec) *)

\* the name the alias table and the substring tests see
CleanedFontName == Lower(Sub(ReSubsetTag, "", font_name.s, FALSE))

\* the family a cleaned name is given by substring, "" without one
FamilyOf(font_clean) ==
    IF Contains(font_clean, "calibri") \/ Contains(font_clean, "arial") THEN "Helvetica"
    ELSE IF Contains(font_clean, "times") THEN "Times"
    ELSE IF Contains(font_clean, "courier") THEN "Courier"
    ELSE ""

\* the id of a family in a style
StyleVariant(family, bold, italic) ==
    CASE family = "Times" ->
            (IF bold /\ italic THEN "Times-BoldItalic" ELSE IF bold THEN "Times-Bold"
             ELSE IF italic THEN "Times-Italic" ELSE "Times-Roman")
      [] OTHER ->
            (IF bold /\ italic THEN family \o "-BoldOblique" ELSE IF bold THEN family \o "-Bold"
             ELSE IF italic THEN family \o "-Oblique" ELSE family)

\* a name that is not in the alias table and holds a family name was normalised
StyledByNormalizeFont ==
    /\ font_id # <<>>
    /\ ~Falsy(font_name)
    /\ CleanedFontName \notin DOMAIN FontMap
    /\ FamilyOf(CleanedFontName) # ""

\* C25: font style cross-product.  For a name that is not in the alias table
\* the family is chosen by substring and the style by the substrings "bold"
\* and "italic": every family, Courier included, yields its bold variant for
\* "bold" alone, its italic/oblique variant for "italic" alone and its
\* bold+italic variant for both
C25_StyleCrossProduct ==
    StyledByNormalizeFont =>
        font_id[1].value = StyleVariant(FamilyOf(CleanedFontName),
                                        Contains(CleanedFontName, "bold"),
                                        Contains(CleanedFontName, "italic"))

\* what the claim gets right: the cross product for the Helvetica and the
\* Times family
C25_StyleCrossProductSansAndSerif ==
    (StyledByNormalizeFont /\ FamilyOf(CleanedFontName) # "Courier") =>
        font_id[1].value = StyleVariant(FamilyOf(CleanedFontName),
                                        Contains(CleanedFontName, "bold"),
                                        Contains(CleanedFontName, "italic"))

\* a Courier name is given its bold variant or the plain one: "italic" is not read
C25_CourierItalicUnread ==
    (StyledByNormalizeFont /\ FamilyOf(CleanedFontName) = "Courier") =>
        font_id[1].value = StyleVariant("Courier", Contains(CleanedFontName, "bold"), FALSE)

\* a Courier name with "italic" in it was normalised
C25_CourierItalicNormalised ==
    /\ StyledByNormalizeFont
    /\ FamilyOf(CleanedFontName) = "Courier"
    /\ Contains(CleanedFontName, "italic")


-----------------------------------------------------------------------------
(* Claims about the body style (under AnalyzeSpec) *)

\* the real lines of the first page of the PDF template with a size below 12
BodyLines ==
    With(GroupCharsIntoLines(disk[template_file].pages[1].chars), LAMBDA all_lines :
        SelectLines(SelectLines(all_lines, LAMBDA l : ~IsPlaceholder(l.text)),
                    LAMBDA l : l.font_size < 12))

\* the sizes of these lines that no other size occurs more often than
MostFrequentSizes(body_lines) ==
    LET Count(z) == Cardinality({k \in 1..Len(body_lines) : body_lines[k].font_size = z})
        sizes == {body_lines[k].font_size : k \in 1..Len(body_lines)}
    IN  {z \in sizes : \A y \in sizes : Count(y) <= Count(z)}

\* analyze_pdf_template read a page whose lines below size 12 have one most
\* frequent size
BodyStyleDetected ==
    /\ profile # <<>>
    /\ profile[1].by = "analyze_pdf_template"
    /\ template_file \in DOMAIN disk
    /\ disk[template_file].fmt = "pdf"
    /\ Len(disk[template_file].pages) > 0
    /\ Cardinality(MostFrequentSizes(BodyLines)) = 1

\* C26: body style of a page-based template.  The body size is the most
\* frequent size among the real lines below 12, and the body font is the
\* normalized font of a line of that size, not of a line of another size
C26_BodyFontOfCommonSize ==
    BodyStyleDetected =>
        With(BodyLines, LAMBDA body_lines :
            /\ profile[1].value.body.size \in MostFrequentSizes(body_lines)
            /\ \E k \in 1..Len(body_lines) :
                    /\ body_lines[k].font_size = profile[1].value.body.size
                    /\ NormalizeFont(PyStr(body_lines[k].font)) = profile[1].value.body.font)

\* what the claim gets right: the body size; the body font is the normalized
\* font of the first line below 12, whatever its size
C26_BodyFontOfFirstLine ==
    BodyStyleDetected =>
        With(BodyLines, LAMBDA body_lines :
            /\ profile[1].value.body.size \in MostFrequentSizes(body_lines)
            /\ profile[1].value.body.font = NormalizeFont(PyStr(body_lines[1].font))
            /\ profile[1].value.body.line_spacing = 14)

\* the page analysed begins its lines below 12 with one of a size that is not
\* the most frequent size
C26_FirstLineOfOtherSize ==
    /\ BodyStyleDetected
    /\ BodyLines[1].font_size \notin MostFrequentSizes(BodyLines)


-----------------------------------------------------------------------------
(* IntelligentFormatter._format_pdf: the overlay, with the position of every
   string it draws *)

\* str.title(): a letter after a letter is lowered, any other letter raised
TitleCase(s) ==
    [i \in 1..Len(s) |->
        IF i > 1 /\ Ch(s, i - 1) \in AlphaSet THEN LowerCh(Ch(s, i)) ELSE UpperCh(Ch(s, i))]

\* the keywords of IntelligentFormatter._find_matching_resume_section, in the
\* order of the dict
OverlayKeywords ==
    << <<"experience", "employment", "work", "professional">>,
       <<"education", "academic", "qualification">>,
       <<"skills", "technical", "competencies">>,
       <<"summary", "objective", "profile">>,
       <<"projects", "portfolio">>,
       <<"certifications", "certificates">>,
       <<"awards", "achievements">> >>

\* IntelligentFormatter._find_matching_resume_section(template_heading,
\* resume_sections), the dict resume_sections as its items in order
FindMatchingSection(template_heading, resume_sections) ==
    LET heading_lower == Lower(template_heading)
        direct == {k \in 1..Len(resume_sections) : resume_sections[k][1] = heading_lower}
        \* the keyword lists that match the heading and a key of the record
        served == {n \in 1..Len(OverlayKeywords) :
                    /\ ContainsAny(heading_lower, OverlayKeywords[n])
                    /\ \E k \in 1..Len(resume_sections) :
                            ContainsAny(resume_sections[k][1], OverlayKeywords[n])}
    IN  IF direct # {} THEN resume_sections[Least(direct)][2]
        ELSE IF served = {} THEN <<>>
        ELSE resume_sections[Least({k \in 1..Len(resume_sections) :
                ContainsAny(resume_sections[k][1], OverlayKeywords[Least(served)])})][2]

\* section_order of _match_sections
SectionOrder == <<"summary", "experience", "education", "skills", "projects", "certifications">>

\* the pairs (heading, content) of the template sections that have content
RECURSIVE MatchTemplateSections(_, _, _)
MatchTemplateSections(template_sections, resume_sections, n) ==
    IF n > Len(template_sections) THEN <<>>
    ELSE With(FindMatchingSection(template_sections[n].heading, resume_sections), LAMBDA content :
            (IF content # <<>> THEN << <<template_sections[n].heading, content>> >> ELSE <<>>)
            \o MatchTemplateSections(template_sections, resume_sections, n + 1))

\* the pairs (title-cased key, content) of the record's sections, in section_order
RECURSIVE MatchResumeSections(_, _)
MatchResumeSections(resume_sections, n) ==
    IF n > Len(SectionOrder) THEN <<>>
    ELSE With({k \in 1..Len(resume_sections) :
                /\ Contains(Lower(resume_sections[k][1]), SectionOrder[n])
                /\ resume_sections[k][2] # <<>>}, LAMBDA found :
            (IF found = {} THEN <<>>
             ELSE << <<TitleCase(resume_sections[Least(found)][1]),
                       resume_sections[Least(found)][2]>> >>)
            \o MatchResumeSections(resume_sections, n + 1))

\* IntelligentFormatter._match_sections
MatchSections(d, ta) ==
    IF ta.sections # <<>> THEN MatchTemplateSections(ta.sections, d.sections, 1)
    ELSE MatchResumeSections(d.sections, 1)

\* canvas.stringWidth(text) in Helvetica 10, every character five units wide
StringWidth(str) == 5 * Len(str)

\* the for loop of _wrap_text from word n
RECURSIVE WrapFrom(_, _, _, _)
WrapFrom(words, n, current_line, max_width) ==
    IF n > Len(words) THEN (IF current_line # <<>> THEN <<Join(" ", current_line)>> ELSE <<>>)
    ELSE IF StringWidth(Join(" ", Append(current_line, words[n]))) <= max_width
         THEN WrapFrom(words, n + 1, Append(current_line, words[n]), max_width)
         ELSE (IF current_line # <<>> THEN <<Join(" ", current_line)>> ELSE <<>>)
              \o WrapFrom(words, n + 1, <<words[n]>>, max_width)

\* IntelligentFormatter._wrap_text(text, canvas_obj, max_width)
WrapText(str, max_width) ==
    With(WrapFrom(SplitWs(str), 1, <<>>, max_width), LAMBDA wrapped :
        IF wrapped # <<>> THEN wrapped ELSE <<Take(str, 100)>>)

\* the items of a section from item n on, drawn from y_pos on: the strings
\* drawn with the y_pos of each, and the y_pos left
RECURSIVE PaintItems(_, _, _, _, _, _)
PaintItems(section_data, n, y_pos, bottom, max_width, section) ==
    IF n > Len(section_data) \/ y_pos < bottom + 50 THEN [drawn |-> <<>>, y_pos |-> y_pos]
    ELSE With(WrapText(section_data[n], max_width), LAMBDA wrapped :
         With(PaintItems(section_data, n + 1, y_pos - 14 * Len(wrapped), bottom, max_width,
                         section), LAMBDA rest :
            [drawn |-> [k \in 1..Len(wrapped) |->
                            [what |-> "line", section |-> section, item |-> n,
                             str |-> Bullet \o " " \o wrapped[k], y_pos |-> y_pos - 14 * (k - 1)]]
                       \o rest.drawn,
             y_pos |-> rest.y_pos]))

\* the sections from section n on, drawn from y_pos on
RECURSIVE PaintSections(_, _, _, _, _)
PaintSections(sections_to_draw, n, y_pos, bottom, max_width) ==
    IF n > Len(sections_to_draw) \/ y_pos < bottom + 100 THEN <<>>
    ELSE With(PaintItems(Take(sections_to_draw[n][2], 10), 1, y_pos - 25, bottom, max_width, n),
              LAMBDA items :
            << [what |-> "heading", section |-> n, item |-> 0,
                str |-> sections_to_draw[n][1], y_pos |-> y_pos] >>
            \o items.drawn
            \o PaintSections(sections_to_draw, n + 1, items.y_pos - 10, bottom, max_width))

\* the strings the overlay of _format_pdf gets, with the y_pos each is drawn
\* at, for a profile without letterhead and placeholders entries (the
\* analysers write neither)
PaintOverlay(d, ta, page_width, page_height) ==
    LET contact_parts == ContactParts(d)
        start_y == page_height - 72
        margins == ta.page.margins
    IN  << [what |-> "name", section |-> 0, item |-> 0, str |-> Upper(d.name),
            y_pos |-> start_y] >>
        \o (IF contact_parts # <<>>
            THEN << [what |-> "contact", section |-> 0, item |-> 0,
                     str |-> Join(" | ", contact_parts), y_pos |-> start_y - 25] >>
            ELSE <<>>)
        \o PaintSections(MatchSections(d, ta), 1,
                         IF contact_parts # <<>> THEN start_y - 55 ELSE start_y - 25,
                         margins.bottom, page_width - margins.left - margins.right - 20)

\* IntelligentFormatter._format_pdf with the positions of the strings: the
\* result and the strings drawn.  PdfReader raises for anything but a PDF;
\* open(self.output_path, 'wb') raises when the output cannot be written
FormatPdfOverlay(self, dsk, save_ok) ==
    IF ~OpensAsPdf(dsk, self.template_path.s) \/ Len(dsk[self.template_path.s].pages) = 0
    THEN [kind |-> "raised", value |-> FALSE, drawn |-> <<>>]
    ELSE With(PaintOverlay(self.resume_data, self.template_analysis,
                           dsk[self.template_path.s].pages[1].width,
                           dsk[self.template_path.s].pages[1].height), LAMBDA drawn :
            IF ~save_ok THEN [kind |-> "raised", value |-> FALSE, drawn |-> drawn]
            ELSE [kind |-> "returned", value |-> TRUE, drawn |-> drawn])

-----------------------------------------------------------------------------
(* _format_pdf applied to bounded pages and records *)

\* lines of a template page: a heading near the top, a heading near the
\* bottom, and a page number at the bottom right
OverlayPageLines ==
    << CharsAt("Experience", 200, 72, "Arial", 12),
       CharsAt("Skills", 700, 72, "Arial", 12),
       CharsAt("Page 1", 740, 500, "Arial", 8) >>

RECURSIVE OverlayChars(_, _)
OverlayChars(chosen, i) ==
    IF i > Len(OverlayPageLines) THEN <<>>
    ELSE (IF i \in chosen THEN OverlayPageLines[i] ELSE <<>>) \o OverlayChars(chosen, i + 1)

\* PDF templates of one page
OverlayTemplates ==
    {PdfTemplate(<<[width |-> size[1], height |-> size[2], chars |-> OverlayChars(chosen, 1)]>>) :
        size \in PageSizes, chosen \in SUBSET (1..Len(OverlayPageLines))}

\* the most items of a section of a modelled record
ManyItems == 12

\* n items of six words
SixWordItems(n) == [k \in 1..n |-> "Led team " \o ToString(k) \o " of five engineers"]

\* the sections dicts of the records, as their items in order
OverlaySections ==
    { <<>>,
      << <<"experience", <<"Engineer at Acme Corp", "Built APIs">> >> >>,
      << <<"experience", SixWordItems(ManyItems)>>, <<"skills", <<"Python", "SQL", "Go">> >> >>,
      << <<"summary", <<"Engineer with ten years of work on large and small systems of many kinds">> >>,
         <<"work experience", SixWordItems(4)>>,
         <<"education", <<"BSc Physics", "MIT 2010 - 2014">> >>,
         <<"skills", <<"Python", "">> >> >>,
      << <<"skills", SixWordItems(ManyItems)>>, <<"experience", SixWordItems(ManyItems)>>,
         <<"education", SixWordItems(ManyItems)>>, <<"summary", SixWordItems(ManyItems)>> >>,
      << <<"experience",
           SixWordItems(5) \o <<"Moved the billing and the ledger services of the group from one "
                                \o "data centre to two others">> >> >> }

OverlayRecords ==
    { [Identity(who[1], who[2], "", "", "", "") EXCEPT !.sections = sections] :
        who \in {<<"Jane Doe", "">>, <<"Jane Doe", "jane@mail.com">>},
        sections \in OverlaySections }

\* the template on disk, and the profile analyze_pdf_template gives for it
OverlayInit ==
    /\ resume_data \in OverlayRecords
    /\ \E file \in OverlayTemplates :
        /\ disk = WriteFile(<<>>, "templates/t.pdf", file)
        /\ template_analysis =
                AnalyzePdfTemplate("templates/t.pdf", WriteFile(<<>>, "templates/t.pdf", file))
    /\ output_path = "out/jane.pdf"
    /\ has_word_formatter = TRUE /\ has_win32 = FALSE
    /\ opened = {}
    /\ formatted = [kind |-> "idle"]
    /\ text = "" /\ now_year = "2026" /\ yrs = <<>> /\ durs = <<>>
    /\ HeaderIdle
    /\ ParseIdle
    /\ ProbesIdle

\* formatter._format_pdf() on the formatter of the record and the profile
CallFormatPdf ==
    /\ formatted.kind = "idle"
    /\ \E save_ok \in BOOLEAN :
        LET result == FormatPdfOverlay(Self(resume_data, template_analysis, output_path),
                                       disk, save_ok)
        IN  formatted' = [kind |-> result.kind, entry |-> "_format_pdf",
                          value |-> result.value, drawn |-> result.drawn]
    /\ UNCHANGED <<resume_data, template_analysis, output_path, has_word_formatter, has_win32,
                   disk, opened, cleanVars, headerVars, parseVars, tableVars, lookupVars,
                   fontVars, analyzeVars>>

OverlayNext == CallFormatPdf

OverlaySpec == OverlayInit /\ [][OverlayNext]_vars

-----------------------------------------------------------------------------
(* Claims about the overlay of _format_pdf (under OverlaySpec) *)

\* the strings drawn by the call, in the order drawn
OverlayDrawn == IF formatted.kind = "idle" THEN <<>> ELSE formatted.drawn

\* the sections _match_sections gives for the record and the profile
OverlayMatched == MatchSections(resume_data, template_analysis)

\* the bottom margin of the profile
OverlayBottom == template_analysis.page.margins.bottom

\* the sections whose heading was drawn
HeadingsDrawn(drawn) == {drawn[k].section : k \in {j \in 1..Len(drawn) : drawn[j].what = "heading"}}

\* y_pos only decreases from one drawn string to the next
PositionDecreases(drawn) ==
    \A k \in 1..(Len(drawn) - 1) : drawn[k + 1].y_pos < drawn[k].y_pos

\* headings and items come in the order of the matched sections, every
\* heading with the matched title and every line under its own heading
MatchedOrder(drawn, matched) ==
    /\ \A k \in 1..(Len(drawn) - 1) : drawn[k].section <= drawn[k + 1].section
    /\ \A k \in 1..Len(drawn) :
        /\ drawn[k].what = "heading" =>
                /\ drawn[k].section \in 1..Len(matched)
                /\ drawn[k].str = matched[drawn[k].section][1]
                /\ \A j \in 1..(k - 1) : drawn[j].section < drawn[k].section
        /\ drawn[k].what = "line" =>
                /\ drawn[k].section \in HeadingsDrawn(drawn)
                /\ drawn[k].item \in 1..Min(10, Len(matched[drawn[k].section][2]))

\* a heading is drawn only at bottom + 100 or above
HeadingFloor(drawn, bottom) ==
    \A k \in 1..Len(drawn) : drawn[k].what = "heading" => drawn[k].y_pos >= bottom + 100

\* the sections drawn are the first ones: none is drawn after one was refused
NoneAfterRefused(drawn, matched) ==
    \E m \in 0..Len(matched) : HeadingsDrawn(drawn) = 1..m

\* no string is drawn below the bottom margin
NoneBelowBottom(drawn, bottom) ==
    \A k \in 1..Len(drawn) : drawn[k].y_pos >= bottom

\* the first line of every item is drawn at bottom + 50 or above
ItemFloor(drawn, bottom) ==
    \A k \in 1..Len(drawn) :
        (/\ drawn[k].what = "line"
         /\ (k = 1 \/ drawn[k - 1].what # "line" \/ drawn[k - 1].item # drawn[k].item))
        => drawn[k].y_pos >= bottom + 50

\* _format_pdf returns True whenever the output file can be written
ReturnsSuccess ==
    /\ FormatPdfOverlay(Self(resume_data, template_analysis, output_path), disk, TRUE).kind
            = "returned"
    /\ FormatPdfOverlay(Self(resume_data, template_analysis, output_path), disk, TRUE).value
            = TRUE

\* C27: in the PDF overlay path the position only decreases as content is
\* painted, the sections are painted in the matched order, a heading is
\* painted only at bottom margin + 100 or above and no section follows a
\* refused one, no line of text is painted below the bottom margin, and the
\* operation returns success however much was left out.
C27_SoftTruncation ==
    formatted.kind # "idle" =>
        /\ PositionDecreases(OverlayDrawn)
        /\ MatchedOrder(OverlayDrawn, OverlayMatched)
        /\ HeadingFloor(OverlayDrawn, OverlayBottom)
        /\ NoneAfterRefused(OverlayDrawn, OverlayMatched)
        /\ NoneBelowBottom(OverlayDrawn, OverlayBottom)
        /\ ReturnsSuccess

\* C27, as the code has it: the floor bottom margin + 50 is tested before an
\* item only, so the first line of an item is at or above it; everything else
\* of the claim but the bottom margin holds.
C27_SoftTruncationByItem ==
    formatted.kind # "idle" =>
        /\ PositionDecreases(OverlayDrawn)
        /\ MatchedOrder(OverlayDrawn, OverlayMatched)
        /\ HeadingFloor(OverlayDrawn, OverlayBottom)
        /\ NoneAfterRefused(OverlayDrawn, OverlayMatched)
        /\ ItemFloor(OverlayDrawn, OverlayBottom)
        /\ ReturnsSuccess

\* an item whose wrapped lines run below the bottom margin was painted, and
\* the call returned True
C27_PaintedBelowBottom ==
    /\ formatted.kind = "returned"
    /\ formatted.value = TRUE
    /\ ~NoneBelowBottom(OverlayDrawn, OverlayBottom)

\* a section was refused for lack of space and the call returned True
C27_SectionRefused ==
    /\ formatted.kind = "returned"
    /\ formatted.value = TRUE
    /\ HeadingsDrawn(OverlayDrawn) # 1..Len(OverlayMatched)
    /\ HeadingsDrawn(OverlayDrawn) # {}

-----------------------------------------------------------------------------
(* _add_sections_content applied to records whose blocks read like headings *)

\* records whose entries carry the word of a section marker: a role and a
\* detail line with "experience", a degree with "Education", and an education
\* entry without degree and institution, whose block is headed EDUCATION
AnchorRecords ==
    { Structured(<<ExperienceEntry("Acme Corp", "Engineer", "", "2019-2021",
                                   <<"Gained experience in Go">>)>>, <<>>),
      Structured(<<ExperienceEntry("Acme Corp", "User Experience Designer", "", "2019-2021",
                                   <<>>)>>,
                 <<EducationEntry("Bachelor of Education", "MIT", "2012", <<>>)>>),
      Structured(<<>>, <<EducationEntry("", "", "2012", <<>>)>>) }

\* the formatters run on a .docx template of SectionTemplates for a record of
\* StructuredRecords or AnchorRecords
AnchorsInit ==
    /\ resume_data \in StructuredRecords \cup AnchorRecords
    /\ template_analysis = [template_path |-> PyStr(DocxPath), template_type |-> PyStr("docx")]
    /\ output_path = "out/jane.docx"
    /\ has_word_formatter \in BOOLEAN
    /\ has_win32 = FALSE
    /\ \E doc \in SectionTemplates : disk = DiskWith(doc)
    /\ opened = {}
    /\ formatted = [kind |-> "idle"]
    /\ text = "" /\ now_year = "2026" /\ yrs = <<>> /\ durs = <<>>
    /\ HeaderIdle
    /\ ParseIdle
    /\ ProbesIdle

AnchorsSpec == AnchorsInit /\ [][FormatNext]_vars

-----------------------------------------------------------------------------
(* Claims about the heading anchors (under AnchorsSpec) *)

\* a table that is the block of one of the entries: its first row is the
\* heading text and the years of that block
IsBlockOf(t, blocks) ==
    \E k \in 1..Len(blocks) :
        /\ t.rows[1][1][1] = blocks[k].rows[1][1][1]
        /\ Len(t.rows[1]) = 2
        /\ t.rows[1][2] = blocks[k].rows[1][2]

\* the number of blocks among the elements from the k-th on, those nested in
\* the cells of a table included
RECURSIVE BlocksAmong(_, _, _), BlocksInRows(_, _, _, _)
BlocksAmong(elements, k, blocks) ==
    IF k > Len(elements) THEN 0
    ELSE (IF elements[k].tag = "tbl"
          THEN (IF IsBlockOf(elements[k], blocks) THEN 1 ELSE 0)
               + BlocksInRows(elements[k].rows, 1, 1, blocks)
          ELSE 0)
         + BlocksAmong(elements, k + 1, blocks)
BlocksInRows(rows, r, c, blocks) ==
    IF r > Len(rows) THEN 0
    ELSE IF c > Len(rows[r]) THEN BlocksInRows(rows, r + 1, 1, blocks)
    ELSE BlocksAmong(rows[r][c], 1, blocks) + BlocksInRows(rows, r, c + 1, blocks)

\* the tables that follow the j-th of the siblings without a paragraph between
TableRun(siblings, j) ==
    SubSeq(siblings, j + 1,
           Max(j, Least({m \in j..Len(siblings) :
                            m = Len(siblings) \/ siblings[m + 1].tag # "tbl"})))

\* the j-th of the siblings is a heading paragraph of the template
TemplateAnchor(siblings, j, section_key) ==
    /\ IsHeading(siblings[j], section_key)
    /\ \E others \in SiblingLists(TemplateDoc) : \E i \in 1..Len(others) :
            others[i] = siblings[j]

\* every experience and education heading of the template is followed by at
\* most one block per entry of the record, at most 10 and 5 of them
AnchorsServedOnce ==
    \A siblings \in SiblingLists(OutputDoc) : \A j \in 1..Len(siblings) :
        /\ (TemplateAnchor(siblings, j, "experience") /\ Len(resume_data.experience) > 0) =>
                BlocksAmong(TableRun(siblings, j), 1,
                            ExperienceBlocks(Take(resume_data.experience, 10)))
                    <= Min(10, Len(resume_data.experience))
        /\ (TemplateAnchor(siblings, j, "education") /\ Len(resume_data.education) > 0) =>
                BlocksAmong(TableRun(siblings, j), 1,
                            EducationBlocks(Take(resume_data.education, 5)))
                    <= Min(5, Len(resume_data.education))

\* a paragraph of the template is an experience heading and a heading of the
\* generic rule: HISTORY and one of EMPLOY, EMPLOYER, WORK, CAREER
HoldsTwiceMatchedHeading(doc) ==
    \E i \in 1..Len(doc.body) :
        /\ IsHeading(doc.body[i], "experience")
        /\ Contains(Strip(Upper(ParagraphText(doc.body[i].runs))), "HISTORY")
        /\ ContainsAny(Strip(Upper(ParagraphText(doc.body[i].runs))),
                       <<"EMPLOY", "EMPLOYER", "WORK", "CAREER">>)

\* a paragraph of a block of the record holds a marker of experience or education
BlocksReadAsHeadings(d) ==
    \E k \in 1..Len(ElementsParagraphs(ExperienceBlocks(d.experience)
                                       \o EducationBlocks(d.education))) :
        With(Upper(ElementsParagraphs(ExperienceBlocks(d.experience)
                                      \o EducationBlocks(d.education))[k]), LAMBDA upper :
            \/ ContainsAny(upper, SectionMarkers("experience"))
            \/ ContainsAny(upper, SectionMarkers("education")))

\* C28: heading anchors are served once.  During one reconciliation every
\* experience or education heading paragraph of the template receives the
\* blocks of the record at most once (at most min(10, n) experience blocks,
\* min(5, n) education blocks after it), also a heading that matches a section
\* marker and the generic HISTORY rule, and the blocks inserted are no
\* anchors of the later pass over the table cells
C28_AnchorsServedOnce == WordFormatted => AnchorsServedOnce

\* what holds in the code: headings that match one trigger only are served
\* once, for records whose blocks hold no section marker
C28_SingleTriggerServedOnce ==
    (/\ WordFormatted
     /\ ~HoldsTwiceMatchedHeading(TemplateDoc)
     /\ ~BlocksReadAsHeadings(resume_data)) => AnchorsServedOnce

\* a heading that matches a marker and the generic rule got the blocks of the
\* record twice
C28_ServedByMarkerAndGenericRule ==
    /\ WordFormatted
    /\ HoldsTwiceMatchedHeading(TemplateDoc)
    /\ ~BlocksReadAsHeadings(resume_data)
    /\ Len(resume_data.experience) > 0
    /\ \E j \in 1..Len(OutputDoc.body) :
            /\ TemplateAnchor(OutputDoc.body, j, "experience")
            /\ BlocksAmong(TableRun(OutputDoc.body, j), 1,
                           ExperienceBlocks(Take(resume_data.experience, 10)))
                    = 2 * Min(10, Len(resume_data.experience))

\* a block inserted at a heading of one trigger was an anchor of the pass
\* over the table cells: it holds a second block of the same entry
C28_BlockServedAsAnchor ==
    /\ WordFormatted
    /\ ~HoldsTwiceMatchedHeading(TemplateDoc)
    /\ BlocksReadAsHeadings(resume_data)
    /\ Len(resume_data.experience) = 1
    /\ \E j \in 1..Len(OutputDoc.body) :
            /\ TemplateAnchor(OutputDoc.body, j, "experience")
            /\ BlocksAmong(TableRun(OutputDoc.body, j), 1,
                           ExperienceBlocks(resume_data.experience)) = 2

-----------------------------------------------------------------------------
(* Claims about the partition of the experience section (under ScanSpec) *)

\* the indices of the section lines an entry was made from
UsedLines(it) == ({it.duration_at, it.title_at} \ {0}) \cup it.details_at

\* the index of the first of them
FirstLine(it) == Least(UsedLines(it))

\* the line ends the details of an entry: a date anchor, a company/role-looking
\* line or a section header
EndsDetails(ln) == ContainsDateRange(ln) \/ LooksLikeCompanyOrRole(ln) \/ IsSectionHeader(ln)

\* the entry holds what its lines hold: its title is the title line, its
\* duration the cleaned years of the duration line, and its details the
\* detail lines in order
MadeFromLines(it, ls, year) ==
    /\ UsedLines(it) \subseteq 1..Len(ls)
    /\ it.entry.title = (IF it.title_at # 0 THEN ls[it.title_at] ELSE "")
    /\ it.entry.duration = (IF it.duration_at # 0 THEN CleanYears(ls[it.duration_at], year) ELSE "")
    /\ Len(it.entry.details) = Cardinality(it.details_at)
    /\ \A n \in 1..Len(it.entry.details) :
            /\ Least(it.details_at) + n - 1 \in it.details_at
            /\ it.entry.details[n] = ls[Least(it.details_at) + n - 1]

\* C29: experience scan partition.  In the result of _extract_experience the
\* entries are in the order of their first line in the section, every line of
\* the section is used by at most one entry, as its duration line, its title
\* line or a detail line, and no entry's details hold a date anchor, a
\* company/role-looking line or a section header
C29_ExperienceScanPartition ==
    scan.loop = "experience" =>
        /\ \A k \in 1..Len(scan.out) : MadeFromLines(scan.out[k], scan.ls, now_year)
        /\ \A k \in 1..(Len(scan.out) - 1) : FirstLine(scan.out[k]) < FirstLine(scan.out[k + 1])
        /\ \A k, m \in 1..Len(scan.out) :
                k # m => UsedLines(scan.out[k]) \cap UsedLines(scan.out[m]) = {}
        /\ \A k \in 1..Len(scan.out) : \A n \in 1..Len(scan.out[k].entry.details) :
                ~EndsDetails(scan.out[k].entry.details[n])
        /\ scan.done => EntriesOf(scan.out) = ExtractExperience(lines, now_year)

\* the scan of a section returned two entries, the first with a detail line
\* and the second begun at the line that ended the details of the first
C29_Witness ==
    /\ scan.loop = "experience"
    /\ scan.done
    /\ Len(scan.out) = 2
    /\ Len(scan.out[1].entry.details) > 0
    /\ FirstLine(scan.out[2]) = FirstLine(scan.out[1]) + Cardinality(UsedLines(scan.out[1]))
    /\ EndsDetails(scan.ls[FirstLine(scan.out[2])])

-----------------------------------------------------------------------------
(* Claims about the end of the line-scan loops (under ScanLiveSpec) *)

\* every iteration of a loop leaves a larger index, and the return leaves the
\* index as it is
EveryIterationAdvances ==
    [][IF scan'.done THEN scan'.i = scan.i /\ scan.i > Len(scan.ls)
       ELSE scan'.i > scan.i]_vars

\* the branches taken by the iterations so far
BranchesTaken == {scan.out[k].taken : k \in 1..Len(scan.out)}

\* C30: the line-scan loops terminate.  For every list of lines the
\* experience scan, the education scan and the two bullet fallbacks of the
\* formatter finish, and every iteration of each loop strictly increases the
\* line index, whichever branch is taken
C30_LineScansTerminate == EveryIterationAdvances /\ <>(scan.done)

\* the experience scan returned after an iteration of Pattern B and one of
\* Pattern A
C30_Witness ==
    /\ scan.loop = "experience"
    /\ scan.done
    /\ scan.i = Len(scan.ls) + 1
    /\ BranchesTaken = {"A", "B"}

====
